---- MODULE Spec2Model ----
(***************************************************************************)
(* Model of the product reconciliation engine of src/cpuhardware.py        *)
(* (class ProductMatcher and the batch loop of main).                      *)
(*                                                                         *)
(* Text is a sequence of one-character strings.  Python's None is the      *)
(* value None below.  Scores are Python floats in the code; here they are  *)
(* exact rationals [n |-> numerator, d |-> denominator], d > 0, in lowest  *)
(* terms, so that equalities and comparisons are those of the real         *)
(* numbers the floats approximate.                                         *)
(***************************************************************************)
EXTENDS Integers, Sequences, FiniteSets, TLC

VARIABLES
    db_rows,        \* table AMD_Processors: the rows the catalog reader delivers
    cursor,         \* self.cursor, the one cursor every call of a matcher shares
    call,           \* per caller: the frame of its find_best_match call
    scraped_cpus,   \* main: the list returned by scrape_cpu_data
    main,           \* main: position in the batch loop and matched_products
    log,            \* the records logger.error wrote, oldest first
    fn              \* a pure function applied to drawn arguments, and its result

vars == <<db_rows, cursor, call, scraped_cpus, main, log, fn>>

(***************************************************************************)
(* Python values                                                           *)
(***************************************************************************)
None == <<"<None>">>

NoResult == <<>>

Some(x) == <<x>>

Raised == [raised |-> TRUE]

(***************************************************************************)
(* Exact rational arithmetic                                               *)
(***************************************************************************)
Abs(x) == IF x < 0 THEN -x ELSE x

RECURSIVE Gcd(_, _)
Gcd(a, b) == IF b = 0 THEN a ELSE Gcd(b, a % b)

Reduced(n, d, g) == [n |-> n \div g, d |-> d \div g]

Rat(n, d) ==
    IF d < 0 THEN Reduced(-n, -d, Gcd(Abs(n), Abs(d)))
    ELSE Reduced(n, d, Gcd(Abs(n), Abs(d)))

Int2Rat(i) == [n |-> i, d |-> 1]

\* sums and comparisons go over the least common denominator (g is the
\* greatest common divisor of the two denominators)
RAddOver(a, b, g) == Rat(a.n * (b.d \div g) + b.n * (a.d \div g), (a.d \div g) * b.d)

RAdd(a, b) == RAddOver(a, b, Gcd(a.d, b.d))

RSub(a, b) == RAddOver(a, [n |-> -b.n, d |-> b.d], Gcd(a.d, b.d))

RMul(a, b) == Rat(a.n * b.n, a.d * b.d)

RDiv(a, b) == Rat(a.n * b.d, a.d * b.n)

RAbs(a) == [n |-> Abs(a.n), d |-> a.d]

RLeOver(a, b, g) == a.n * (b.d \div g) <= b.n * (a.d \div g)

RLe(a, b) == RLeOver(a, b, Gcd(a.d, b.d))

RLtOver(a, b, g) == a.n * (b.d \div g) < b.n * (a.d \div g)

RLt(a, b) == RLtOver(a, b, Gcd(a.d, b.d))

RMax(a, b) == IF RLt(a, b) THEN b ELSE a

(***************************************************************************)
(* Characters and str methods                                              *)
(***************************************************************************)
UpperCase == <<"A","B","C","D","E","F","G","H","I","J","K","L","M",
               "N","O","P","Q","R","S","T","U","V","W","X","Y","Z">>

LowerCase == <<"a","b","c","d","e","f","g","h","i","j","k","l","m",
               "n","o","p","q","r","s","t","u","v","w","x","y","z">>

Digits == <<"0","1","2","3","4","5","6","7","8","9">>

Range(s) == {s[i] : i \in DOMAIN s}

IsDigit(c) == c \in Range(Digits)

\* \w of re: letters, digits and the underscore
IsWordChar(c) == c \in Range(UpperCase) \cup Range(LowerCase) \cup Range(Digits) \cup {"_"}

IsSpace(c) == c = " "

LowerChar(c) ==
    IF c \in Range(UpperCase)
    THEN LowerCase[CHOOSE i \in DOMAIN UpperCase : UpperCase[i] = c]
    ELSE c

\* str.lower
Lower(s) == [i \in DOMAIN s |-> LowerChar(s[i])]

RECURSIVE LStrip(_)
LStrip(s) == IF s # <<>> /\ IsSpace(Head(s)) THEN LStrip(Tail(s)) ELSE s

RECURSIVE RStrip(_)
RStrip(s) ==
    IF s # <<>> /\ IsSpace(s[Len(s)]) THEN RStrip(SubSeq(s, 1, Len(s) - 1)) ELSE s

\* str.strip
Strip(s) == RStrip(LStrip(s))

\* str(x): None prints as the four letters None
Str(x) == IF x = None THEN <<"N","o","n","e">> ELSE x

\* re.sub(r'\W+', ' ', s): every maximal run of non-word characters becomes one space
RECURSIVE SubNonWord(_, _)
SubNonWord(s, inRun) ==
    IF s = <<>> THEN <<>>
    ELSE IF IsWordChar(Head(s)) THEN <<Head(s)>> \o SubNonWord(Tail(s), FALSE)
    ELSE IF inRun THEN SubNonWord(Tail(s), TRUE)
    ELSE <<" ">> \o SubNonWord(Tail(s), TRUE)

\* re.sub(r'[^\d.]', '', s): keep the digits and the dots
RECURSIVE SubNonNumeric(_)
SubNonNumeric(s) ==
    IF s = <<>> THEN <<>>
    ELSE IF IsDigit(Head(s)) \/ Head(s) = "."
         THEN <<Head(s)>> \o SubNonNumeric(Tail(s))
         ELSE SubNonNumeric(Tail(s))

normalize_text(text) ==
    IF text = None \/ text = <<>> THEN <<>>
    ELSE SubNonWord(Strip(Lower(Str(text))), FALSE)

(***************************************************************************)
(* rapidfuzz.fuzz.token_set_ratio with processor=None, score_cutoff=None   *)
(***************************************************************************)
\* str.split(): the maximal runs of non-space characters
RECURSIVE SplitFrom(_, _, _)
SplitFrom(s, cur, acc) ==
    IF s = <<>> THEN (IF cur = <<>> THEN acc ELSE Append(acc, cur))
    ELSE IF IsSpace(Head(s))
         THEN SplitFrom(Tail(s), <<>>, IF cur = <<>> THEN acc ELSE Append(acc, cur))
         ELSE SplitFrom(Tail(s), Append(cur, Head(s)), acc)

Split(s) == SplitFrom(s, <<>>, <<>>)

\* code point order of the characters that survive normalize_text
CharOrder == <<" ">> \o Digits \o <<"_">> \o LowerCase

Ord(c) == IF c \in Range(CharOrder)
          THEN CHOOSE i \in DOMAIN CharOrder : CharOrder[i] = c
          ELSE 0

RECURSIVE StrLe(_, _)
StrLe(a, b) ==
    IF a = <<>> THEN TRUE
    ELSE IF b = <<>> THEN FALSE
    ELSE IF Head(a) = Head(b) THEN StrLe(Tail(a), Tail(b))
    ELSE Ord(Head(a)) < Ord(Head(b))

\* sorted(tokens)
RECURSIVE Sorted(_)
Sorted(S) ==
    IF S = {} THEN <<>>
    ELSE LET m == CHOOSE x \in S : \A y \in S : StrLe(x, y)
         IN  <<m>> \o Sorted(S \ {m})

\* " ".join(tokens)
RECURSIVE Join(_)
Join(toks) ==
    IF toks = <<>> THEN <<>>
    ELSE IF Len(toks) = 1 THEN toks[1]
    ELSE toks[1] \o <<" ">> \o Join(Tail(toks))

Max2(x, y) == IF x < y THEN y ELSE x

\* one row of the longest-common-subsequence table: row[j + 1] is the length
\* of the LCS of the prefix consumed so far and the first j characters of b
RECURSIVE LcsRow(_, _, _, _)
LcsRow(prev, ch, b, row) ==
    IF Len(row) = Len(b) + 1 THEN row
    ELSE LET j == Len(row)
             v == IF ch = b[j] THEN prev[j] + 1 ELSE Max2(prev[j + 1], row[j])
         IN  LcsRow(prev, ch, b, Append(row, v))

RECURSIVE LcsRows(_, _, _)
LcsRows(a, b, prev) ==
    IF a = <<>> THEN prev
    ELSE LcsRows(Tail(a), b, LcsRow(prev, Head(a), b, <<0>>))

LcsLen(a, b) == LcsRows(a, b, [j \in 1..(Len(b) + 1) |-> 0])[Len(b) + 1]

\* rapidfuzz.distance.Indel.distance: insertions and deletions only
indel_distance(a, b) == Len(a) + Len(b) - 2 * LcsLen(a, b)

\* norm_distance with score_cutoff = 0
norm_distance(dist, lensum) ==
    IF lensum # 0 THEN Rat(100 * lensum - 100 * dist, lensum) ELSE Int2Rat(100)

\* the three candidate ratios once the token sets are split into the common
\* tokens and the two differences (joined, sorted)
SetRatios(sect_len, sep, diff_ab_joined, diff_ba_joined) ==
    LET ab_len == Len(diff_ab_joined)
        ba_len == Len(diff_ba_joined)
        result == norm_distance(indel_distance(diff_ab_joined, diff_ba_joined),
                                2 * (sect_len + sep) + ab_len + ba_len)
    IN  IF sect_len = 0 THEN result
        ELSE RMax(RMax(result,
                       norm_distance(sep + ab_len, 2 * sect_len + sep + ab_len)),
                  norm_distance(sep + ba_len, 2 * sect_len + sep + ba_len))

TokenSets(tokens_a, tokens_b) ==
    IF tokens_a = {} \/ tokens_b = {} THEN Int2Rat(0)
    ELSE IF tokens_a \cap tokens_b # {}
            /\ (tokens_a \subseteq tokens_b \/ tokens_b \subseteq tokens_a)
         THEN Int2Rat(100)
    ELSE SetRatios(Len(Join(Sorted(tokens_a \cap tokens_b))),
                   IF tokens_a \cap tokens_b # {} THEN 1 ELSE 0,
                   Join(Sorted(tokens_a \ tokens_b)),
                   Join(Sorted(tokens_b \ tokens_a)))

token_set_ratio(s1, s2) ==
    IF s1 = <<>> \/ s2 = <<>> THEN Int2Rat(0)
    ELSE TokenSets(Range(Split(s1)), Range(Split(s2)))

(***************************************************************************)
(* float(str) on the text re.sub leaves: digits and dots only              *)
(***************************************************************************)
DigitVal(c) == (CHOOSE i \in DOMAIN Digits : Digits[i] = c) - 1

RECURSIVE DigitsVal(_, _)
DigitsVal(s, acc) ==
    IF s = <<>> THEN acc ELSE DigitsVal(Tail(s), 10 * acc + DigitVal(Head(s)))

RECURSIVE Pow10(_)
Pow10(k) == IF k = 0 THEN 1 ELSE 10 * Pow10(k - 1)

Dots(s) == {i \in DOMAIN s : s[i] = "."}

\* float(s): ValueError unless s is digits with at most one dot and at least one digit
float(s) ==
    IF Cardinality(Dots(s)) > 1 \/ Len(s) = Cardinality(Dots(s)) THEN Raised
    ELSE IF Dots(s) = {} THEN [raised |-> FALSE, v |-> Int2Rat(DigitsVal(s, 0))]
    ELSE LET p == CHOOSE i \in Dots(s) : TRUE
             whole == SubSeq(s, 1, p - 1)
             frac == SubSeq(s, p + 1, Len(s))
         IN  [raised |-> FALSE,
              v |-> Rat(DigitsVal(whole \o frac, 0), Pow10(Len(frac)))]

(***************************************************************************)
(* json.dumps and json.loads on attribute maps.  An attribute map (a       *)
(* Python dict of str to str) is a sequence of <<key, value>> pairs with   *)
(* distinct keys, in insertion order.  The decoder covers the JSON texts   *)
(* of such maps and every damaged form of them; it raises on any other.    *)
(***************************************************************************)
Quote == "\""

\* json.dumps(d): {"k": "v", "k2": "v2"}
RECURSIVE DumpMembers(_)
DumpMembers(d) ==
    IF d = <<>> THEN <<>>
    ELSE <<Quote>> \o d[1][1] \o <<Quote, ":", " ", Quote>> \o d[1][2] \o <<Quote>>
         \o (IF Len(d) > 1 THEN <<",", " ">> \o DumpMembers(Tail(d)) ELSE <<>>)

json_dumps(d) == <<"{">> \o DumpMembers(d) \o <<"}">>

Keys(d) == {d[i][1] : i \in DOMAIN d}

\* d[key] = value: a present key keeps its place and takes the new value
DictSet(d, key, value) ==
    IF key \in Keys(d)
    THEN [i \in DOMAIN d |-> IF d[i][1] = key THEN <<key, value>> ELSE d[i]]
    ELSE Append(d, <<key, value>>)

\* the characters up to the closing quote of a string that opened just before s
RECURSIVE ScanString(_, _)
ScanString(s, acc) ==
    IF s = <<>> THEN Raised
    ELSE IF Head(s) = Quote THEN [raised |-> FALSE, v |-> acc, rest |-> Tail(s)]
    ELSE ScanString(Tail(s), Append(acc, Head(s)))

ParseString(s) ==
    IF s = <<>> \/ Head(s) # Quote THEN Raised ELSE ScanString(Tail(s), <<>>)

RECURSIVE ParseMembers(_, _)
ParseMembers(s, acc) ==
    LET k == ParseString(LStrip(s))
    IN  IF k.raised THEN Raised
        ELSE LET c == LStrip(k.rest)
             IN  IF c = <<>> \/ Head(c) # ":" THEN Raised
                 ELSE LET v == ParseString(LStrip(Tail(c)))
                      IN  IF v.raised THEN Raised
                          ELSE LET e == LStrip(v.rest)
                                   d == DictSet(acc, k.v, v.v)
                               IN  IF e = <<>> THEN Raised
                                   ELSE IF Head(e) = "," THEN ParseMembers(Tail(e), d)
                                   ELSE IF Head(e) = "}" /\ LStrip(Tail(e)) = <<>>
                                        THEN [raised |-> FALSE, v |-> d]
                                   ELSE Raised

\* json.loads(text): json.JSONDecodeError (a ValueError) on a damaged text
json_loads(text) ==
    LET s == LStrip(text)
    IN  IF s = <<>> \/ Head(s) # "{" THEN Raised
        ELSE LET b == LStrip(Tail(s))
             IN  IF b # <<>> /\ Head(b) = "}" /\ LStrip(Tail(b)) = <<>>
                 THEN [raised |-> FALSE, v |-> <<>>]
                 ELSE ParseMembers(b, <<>>)

(***************************************************************************)
(* ProductMatcher: the three sub-scores and the composite score            *)
(***************************************************************************)
KeySimilarityBar == 80

\* the inner loop with line 217 as key_similarity >= 80
RECURSIVE BestMatchScore_AtLeast(_, _, _, _)
BestMatchScore_AtLeast(normalized_key, normalized_scraped_value, db_items, best_match_score) ==
    IF db_items = <<>> THEN best_match_score
    ELSE BestMatchScore_AtLeast(normalized_key, normalized_scraped_value, Tail(db_items),
             IF RLe(Int2Rat(KeySimilarityBar),
                    token_set_ratio(normalized_key, normalize_text(db_items[1][1])))
             THEN RMax(best_match_score,
                       token_set_ratio(normalized_scraped_value,
                                       normalize_text(db_items[1][2])))
             ELSE best_match_score)

\* the inner loop, lines 211-220: the best value similarity among the
\* catalog attributes whose label similarity exceeds the bar
RECURSIVE BestMatchScore(_, _, _, _)
BestMatchScore(normalized_key, normalized_scraped_value, db_items, best_match_score) ==
    IF db_items = <<>> THEN best_match_score
    ELSE BestMatchScore(normalized_key, normalized_scraped_value, Tail(db_items),
             IF RLt(Int2Rat(KeySimilarityBar),
                    token_set_ratio(normalized_key, normalize_text(db_items[1][1])))
             THEN RMax(best_match_score,
                       token_set_ratio(normalized_scraped_value,
                                       normalize_text(db_items[1][2])))
             ELSE best_match_score)

\* the outer loop, lines 205-221: match_scores, one score per scraped attribute
RECURSIVE MatchScores(_, _, _)
MatchScores(scraped_items, db_specs, match_scores) ==
    IF scraped_items = <<>> THEN match_scores
    ELSE MatchScores(Tail(scraped_items), db_specs,
             Append(match_scores,
                    BestMatchScore(normalize_text(scraped_items[1][1]),
                                   normalize_text(scraped_items[1][2]),
                                   db_specs, Int2Rat(0))))

RECURSIVE RSum(_)
RSum(xs) == IF xs = <<>> THEN Int2Rat(0) ELSE RAdd(xs[1], RSum(Tail(xs)))

\* line 224: sum(match_scores) / len(match_scores) if match_scores else 0
Average(match_scores) ==
    IF match_scores # <<>>
    THEN RDiv(RSum(match_scores), Int2Rat(Len(match_scores)))
    ELSE Int2Rat(0)

calculate_spec_similarity(scraped_specs, db_specs) ==
    IF scraped_specs = <<>> \/ db_specs = <<>> THEN Int2Rat(0)
    ELSE Average(MatchScores(scraped_specs, db_specs, <<>>))

\* line 241 with max(db_price, 1) for (db_price or 1)
PriceDifferencePercentage_Max1(scraped_price, db_price) ==
    RMul(RDiv(RAbs(RSub(scraped_price, db_price)), RMax(db_price, Int2Rat(1))),
         Int2Rat(100))

\* line 241: abs(scraped_price - db_price) / (db_price or 1) * 100
PriceDifferencePercentage(scraped_price, db_price) ==
    RMul(RDiv(RAbs(RSub(scraped_price, db_price)),
              IF db_price.n = 0 THEN Int2Rat(1) ELSE db_price),
         Int2Rat(100))

\* lines 239-245 without the except clause: the ValueError leaves the function
PriceOfFloats_Uncaught(scraped, db) ==
    IF scraped.raised \/ db.raised THEN Raised
    ELSE RMax(Int2Rat(0),
              RSub(Int2Rat(100), PriceDifferencePercentage(scraped.v, db.v)))

\* line 242 without max(0, ...): the difference is not floored
PriceOfFloats_Unfloored(scraped, db) ==
    IF scraped.raised \/ db.raised THEN Int2Rat(0)
    ELSE RSub(Int2Rat(100), PriceDifferencePercentage(scraped.v, db.v))

\* lines 239-245 once both float() calls are made: a ValueError from either
\* is caught and gives 0
PriceOfFloats(scraped, db) ==
    IF scraped.raised \/ db.raised THEN Int2Rat(0)
    ELSE RMax(Int2Rat(0),
              RSub(Int2Rat(100), PriceDifferencePercentage(scraped.v, db.v)))

calculate_price_similarity(scraped_price, db_price) ==
    PriceOfFloats(float(SubNonNumeric(Str(scraped_price))),
                  float(SubNonNumeric(Str(db_price))))

NameWeight == Rat(5, 10)

SpecWeight == Rat(3, 10)

PriceWeight == Rat(2, 10)

\* lines 274-278 with the spec and price weights exchanged
TotalScore_Exchanged(name_similarity, spec_similarity, price_similarity) ==
    RAdd(RAdd(RMul(name_similarity, NameWeight), RMul(spec_similarity, PriceWeight)),
         RMul(price_similarity, SpecWeight))

\* lines 274-278
TotalScore(name_similarity, spec_similarity, price_similarity) ==
    RAdd(RAdd(RMul(name_similarity, NameWeight), RMul(spec_similarity, SpecWeight)),
         RMul(price_similarity, PriceWeight))

\* the locals of calculate_similarity_score at its return
Locals(name_similarity, spec_similarity, price_similarity) ==
    [raised |-> FALSE,
     name_similarity |-> name_similarity,
     spec_similarity |-> spec_similarity,
     price_similarity |-> price_similarity,
     total_score |-> TotalScore(name_similarity, spec_similarity, price_similarity)]

\* line 267: json.loads(specs) if specs else {}
DecodeSpecs(specs) ==
    IF specs = None \/ specs = <<>> THEN [raised |-> FALSE, v |-> <<>>]
    ELSE json_loads(specs)

ScoreDecoded(scraped_product, db_product, db_specs) ==
    IF db_specs.raised THEN Raised
    ELSE Locals(token_set_ratio(normalize_text(scraped_product.name),
                                normalize_text(db_product.name)),
                calculate_spec_similarity(scraped_product.specs, db_specs.v),
                calculate_price_similarity(scraped_product.price, db_product.price))

\* the locals of calculate_similarity_score at its return, or Raised when
\* json.loads raises on the catalog record's specs
calculate_similarity_score(scraped_product, db_product) ==
    ScoreDecoded(scraped_product, db_product, DecodeSpecs(db_product.specs))

(***************************************************************************)
(* ProductMatcher.find_best_match, one frame per caller                    *)
(***************************************************************************)
DefaultThreshold == 70

Callers == {1, 2}

NoProduct == [name |-> <<>>, price |-> None, specs |-> <<>>]

IdleFrame ==
    [pc |-> "idle", scraped_product |-> NoProduct,
     similarity_threshold |-> Int2Rat(DefaultThreshold),
     all_products |-> <<>>, i |-> 1, matches |-> <<>>, last |-> NoResult,
     e |-> "none", ret |-> NoResult, exc |-> "none"]

\* the frame at entry to find_best_match(scraped_product, similarity_threshold)
NewFrame(scraped_product, similarity_threshold) ==
    [IdleFrame EXCEPT !.pc = "execute", !.scraped_product = scraped_product,
                      !.similarity_threshold = similarity_threshold]

\* the handler of lines 318-320 left out: the exception leaves the call
OnException_Propagates(f, e) ==
    [f EXCEPT !.pc = "done", !.e = e, !.ret = NoResult, !.exc = e]

\* lines 318-320: except Exception as e: logger.error(...); return None.
\* Nothing propagates to the caller (exc stays "none").
OnException(f, e) ==
    [f EXCEPT !.pc = "done", !.e = e, !.ret = NoResult, !.exc = "none"]

\* the comparison of line 302 with its operands swapped
Accepts_Swapped(similarity_score, similarity_threshold) ==
    RLe(similarity_score, similarity_threshold)

\* line 302: if similarity_score >= similarity_threshold
Accepts(similarity_score, similarity_threshold) ==
    RLe(similarity_threshold, similarity_score)

\* line 309: matches.sort(key=score, reverse=True); list.sort is stable, and
\* with reverse=True equal scores keep their original order
RECURSIVE InsertDesc(_, _)
InsertDesc(sorted, m) ==
    IF sorted = <<>> THEN <<m>>
    ELSE IF RLt(sorted[1].score, m.score) THEN <<m>> \o sorted
    ELSE <<sorted[1]>> \o InsertDesc(Tail(sorted), m)

RECURSIVE SortDesc(_, _)
SortDesc(matches, sorted) ==
    IF matches = <<>> THEN sorted
    ELSE SortDesc(Tail(matches), InsertDesc(sorted, matches[1]))

\* line 309 left out: the matches stay in catalog order
SortMatches_Unsorted(matches) == matches

\* an ascending sort turned round: equal scores come out in reverse order
SortMatches_Reversed(matches) ==
    SortDesc([i \in DOMAIN matches |-> matches[Len(matches) + 1 - i]], <<>>)

SortMatches(matches) == SortDesc(matches, <<>>)

\* a new record of the name and the score returned in place of the fetched one
Annotate_NameAndScore(db_product, score) ==
    [similarity_score |-> score, name |-> db_product.name]

\* lines 311-316: the best match is the fetched record itself, and the score
\* is stored into it under 'similarity_score'
Annotate(db_product, score) == [similarity_score |-> score] @@ db_product

Return(f, matches, best_match) ==
    [f EXCEPT !.pc = "done", !.matches = matches,
              !.all_products[matches[1].product] = best_match,
              !.ret = Some(best_match)]

Selected(f, matches) ==
    IF matches # <<>>
    THEN Return(f, matches, Annotate(f.all_products[matches[1].product], matches[1].score))
    ELSE [f EXCEPT !.pc = "done", !.matches = matches, !.ret = NoResult]

SelectBest(f) == Selected(f, SortMatches(f.matches))

\* lines 300-306: one iteration of the loop over all_products; matches holds
\* references (positions in all_products) to the fetched records
Scored(f, r) ==
    IF r.raised THEN [OnException(f, "candidate") EXCEPT !.last = Some(r)]
    ELSE [f EXCEPT !.i = f.i + 1, !.last = Some(r),
                   !.matches = IF Accepts(r.total_score, f.similarity_threshold)
                               THEN Append(f.matches,
                                           [product |-> f.i, score |-> r.total_score])
                               ELSE f.matches]

ScoreOne(f) ==
    Scored(f, calculate_similarity_score(f.scraped_product, f.all_products[f.i]))

\* line 295: self.cursor.execute("SELECT * FROM AMD_Processors"); the
\* statement raises mariadb.Error when the read fails
Execute(t, faults) ==
    /\ call[t].pc = "execute"
    /\ \E fail \in faults :
         IF fail
         THEN /\ call' = [call EXCEPT ![t] = OnException(@, "catalog_read")]
              /\ log' = Append(log, "catalog_read")
              /\ UNCHANGED cursor
         ELSE /\ cursor' = [has_result |-> TRUE, pending |-> db_rows]
              /\ call' = [call EXCEPT ![t].pc = "fetchall"]
              /\ UNCHANGED log
    /\ UNCHANGED <<db_rows, scraped_cpus, main, fn>>

\* line 296: all_products = self.cursor.fetchall(): the rows of the cursor's
\* result set not fetched yet; the result set is then exhausted
Fetchall(t, faults) ==
    /\ call[t].pc = "fetchall"
    /\ \E fail \in faults :
         IF fail \/ ~cursor.has_result
         THEN /\ call' = [call EXCEPT ![t] = OnException(@, "catalog_read")]
              /\ log' = Append(log, "catalog_read")
              /\ UNCHANGED cursor
         ELSE /\ call' = [call EXCEPT ![t].pc = "score", ![t].i = 1,
                                      ![t].all_products = cursor.pending]
              /\ cursor' = [cursor EXCEPT !.pending = <<>>]
              /\ UNCHANGED log
    /\ UNCHANGED <<db_rows, scraped_cpus, main, fn>>

Score(t) ==
    /\ call[t].pc = "score"
    /\ call[t].i <= Len(call[t].all_products)
    /\ call' = [call EXCEPT ![t] = ScoreOne(@)]
    /\ log' = IF call'[t].e = "candidate" THEN Append(log, "candidate") ELSE log
    /\ UNCHANGED <<db_rows, cursor, scraped_cpus, main, fn>>

Select(t) ==
    /\ call[t].pc = "score"
    /\ call[t].i > Len(call[t].all_products)
    /\ call' = [call EXCEPT ![t] = SelectBest(@)]
    /\ UNCHANGED <<db_rows, cursor, scraped_cpus, main, log, fn>>

(***************************************************************************)
(* The inputs drawn: scraped products, catalog rows, thresholds            *)
(***************************************************************************)
MaxCatalog == 2

MaxBatch == 2

Cores12 == << <<<<"C","o","r","e","s">>, <<"1","2">>>> >>

CoreCount12 == << <<<<"c","o","r","e","_","c","o","u","n","t">>, <<"1","2">>>> >>

Cores8Threads16 == << <<<<"C","o","r","e","s">>, <<"8">>>>, <<<<"T","h","r","e","a","d","s">>, <<"1","6">>>> >>

\* ScrapedProduct records as scrape_cpu_data builds them (lines 138-144)
ScrapedA == [name |-> <<"A","M","D"," ","R","y","z","e","n"," ","9">>, price |-> <<"$","1","0",".","0","0">>, specs |-> Cores12]

ScrapedB == [name |-> <<"R","y","z","e","n"," ","9">>, price |-> <<"1","0">>, specs |-> <<>>]

ScrapedC == [name |-> <<"C","o","r","e"," ","i","7">>, price |-> <<"N","/","A">>, specs |-> Cores8Threads16]

ScrapedPool == {ScrapedA, ScrapedB, ScrapedC}

\* a specs column cut short: the text of the map without its closing brace
Damaged(text) == SubSeq(text, 1, Len(text) - 1)

\* rows of AMD_Processors as fetchall delivers them with dictionary=True
EntryPlain == [name |-> <<"R","y","z","e","n"," ","9">>, price |-> <<"1","0">>, specs |-> None]

Entry5900X == [name |-> <<"R","y","z","e","n"," ","9"," ","5","9","0","0","X">>, price |-> <<"9",".","5","0">>,
               specs |-> json_dumps(Cores12)]

EntryDamaged == [name |-> <<"R","y","z","e","n"," ","9">>, price |-> <<"1","0">>,
                 specs |-> Damaged(json_dumps(Cores12))]

EntryFree == [name |-> <<"R","y","z","e","n"," ","9">>, price |-> <<"0">>,
              specs |-> json_dumps(CoreCount12)]

EntryI7 == [name |-> <<"C","o","r","e"," ","i","7">>, price |-> <<"N","/","A">>,
            specs |-> json_dumps(Cores8Threads16)]

EntryPool == {EntryPlain, Entry5900X, EntryDamaged, EntryFree, EntryI7}

SeqsUpTo(S, n) == UNION {[1..k -> S] : k \in 0..n}

Catalogs == SeqsUpTo(EntryPool, MaxCatalog)

Thresholds == {Int2Rat(50), Int2Rat(DefaultThreshold), Int2Rat(100)}

NoCall == [t \in Callers |-> IdleFrame]

IdleMain == [pc |-> "idle", k |-> 1, matched_products |-> <<>>]

IdleFn == [op |-> "none", args |-> <<>>, done |-> FALSE, result |-> Int2Rat(0)]

ClosedCursor == [has_result |-> FALSE, pending |-> <<>>]

(***************************************************************************)
(* Spec: one call of find_best_match on a fresh matcher, the catalog read  *)
(* failing or not                                                          *)
(***************************************************************************)
Init ==
    /\ db_rows \in Catalogs
    /\ cursor = ClosedCursor
    /\ \E p \in ScrapedPool, th \in Thresholds :
         call = [NoCall EXCEPT ![1] = NewFrame(p, th)]
    /\ scraped_cpus = <<>>
    /\ main = IdleMain
    /\ log = <<>>
    /\ fn = IdleFn

Next ==
    \/ Execute(1, BOOLEAN)
    \/ Fetchall(1, BOOLEAN)
    \/ Score(1)
    \/ Select(1)

Spec == Init /\ [][Next]_vars

(***************************************************************************)
(* main, lines 358-388: the batch loop over scraped_cpus.  main calls      *)
(* find_best_match as caller 1 with the default threshold.                 *)
(***************************************************************************)
\* lines 363-373: the record appended for a match, nothing for None
Matched(matched_products, cpu, ret) ==
    IF ret # NoResult
    THEN Append(matched_products,
                [scraped_product |-> cpu, database_match |-> ret[1],
                 similarity_score |-> ret[1].similarity_score])
    ELSE matched_products

\* line 361, the call
MainCall ==
    /\ main.pc = "loop"
    /\ main.k <= Len(scraped_cpus)
    /\ call' = [call EXCEPT ![1] = NewFrame(scraped_cpus[main.k],
                                             Int2Rat(DefaultThreshold))]
    /\ main' = [main EXCEPT !.pc = "wait"]
    /\ UNCHANGED <<db_rows, cursor, scraped_cpus, log, fn>>

\* line 361, the return, and lines 363-375; an exception leaving the call
\* ends the loop at main's own handler (lines 383-388)
MainReturn ==
    /\ main.pc = "wait"
    /\ call[1].pc = "done"
    /\ IF call[1].exc # "none"
       THEN /\ main' = [main EXCEPT !.pc = "closed"]
            /\ log' = Append(log, "main")
       ELSE /\ main' = [main EXCEPT !.pc = "loop", !.k = main.k + 1,
                          !.matched_products =
                              Matched(main.matched_products, scraped_cpus[main.k],
                                      call[1].ret)]
            /\ UNCHANGED log
    /\ call' = [call EXCEPT ![1] = IdleFrame]
    /\ UNCHANGED <<db_rows, cursor, scraped_cpus, fn>>

\* lines 377-388: the loop is over; save, return, close the connection
MainSave ==
    /\ main.pc = "loop"
    /\ main.k > Len(scraped_cpus)
    /\ main' = [main EXCEPT !.pc = "closed"]
    /\ UNCHANGED <<db_rows, cursor, call, scraped_cpus, log, fn>>

BatchPool == {ScrapedA, ScrapedB}

BatchEntryPool == {EntryPlain, EntryDamaged}

BatchInit ==
    /\ db_rows \in SeqsUpTo(BatchEntryPool, MaxCatalog)
    /\ cursor = ClosedCursor
    /\ call = NoCall
    /\ scraped_cpus \in SeqsUpTo(BatchPool, MaxBatch)
    /\ main = [IdleMain EXCEPT !.pc = "loop"]
    /\ log = <<>>
    /\ fn = IdleFn

BatchNext ==
    \/ MainCall
    \/ Execute(1, BOOLEAN)
    \/ Fetchall(1, BOOLEAN)
    \/ Score(1)
    \/ Select(1)
    \/ MainReturn
    \/ MainSave

BatchSpec == BatchInit /\ [][BatchNext]_vars

\* Score(1) is enabled exactly here, and every Score step changes call[1]
ScoreEnabled ==
    call[1].pc = "score" /\ call[1].i <= Len(call[1].all_products)

\* main is one sequential thread and no statement of it blocks for ever: each
\* step that can be taken is taken.  The last conjunct is WF_vars(Score(1))
\* with ENABLED <<Score(1)>>_vars written out as ScoreEnabled.
FairBatchSpec ==
    /\ BatchSpec
    /\ WF_vars(MainCall)
    /\ WF_vars(Execute(1, BOOLEAN))
    /\ WF_vars(Fetchall(1, BOOLEAN))
    /\ WF_vars(Select(1))
    /\ WF_vars(MainReturn)
    /\ WF_vars(MainSave)
    /\ ([]<>~ScoreEnabled \/ []<><<Score(1)>>_vars)

(***************************************************************************)
(* ParSpec: two callers run find_best_match for different scraped          *)
(* products on one matcher (one cursor), their statements interleaved;     *)
(* the catalog read itself does not fail                                   *)
(***************************************************************************)
ParInit ==
    /\ db_rows \in Catalogs
    /\ cursor = ClosedCursor
    /\ \E p1 \in ScrapedPool : \E p2 \in ScrapedPool \ {p1} :
         call = [t \in Callers |->
                    NewFrame(IF t = 1 THEN p1 ELSE p2, Int2Rat(DefaultThreshold))]
    /\ scraped_cpus = <<>>
    /\ main = IdleMain
    /\ log = <<>>
    /\ fn = IdleFn

ParNext ==
    \E t \in Callers :
        \/ Execute(t, {FALSE})
        \/ Fetchall(t, {FALSE})
        \/ Score(t)
        \/ Select(t)

ParSpec == ParInit /\ [][ParNext]_vars

(***************************************************************************)
(* PriceSpec and SpecSimSpec: calculate_price_similarity and               *)
(* calculate_spec_similarity applied to drawn arguments                    *)
(***************************************************************************)
MaxAttrs == 2

Prices == {None, <<"N","/","A">>, <<"0">>, <<"0",".","5","0">>, <<"1">>, <<"9",".","5","0">>, <<"1","0">>,
           <<"$","1","0",".","0","0">>, <<"1",".","2",".","3">>, <<"1",",","2","5","0",".","0","0">>}

Apply(op) ==
    /\ fn.op = op
    /\ ~fn.done
    /\ fn' = [fn EXCEPT !.done = TRUE,
                        !.result = IF op = "calculate_price_similarity"
                                   THEN calculate_price_similarity(fn.args[1], fn.args[2])
                                   ELSE calculate_spec_similarity(fn.args[1], fn.args[2])]
    /\ UNCHANGED <<db_rows, cursor, call, scraped_cpus, main, log>>

FnInit(op, A, B) ==
    /\ db_rows = <<>>
    /\ cursor = ClosedCursor
    /\ call = NoCall
    /\ scraped_cpus = <<>>
    /\ main = IdleMain
    /\ log = <<>>
    /\ \E a \in A, b \in B : fn = [IdleFn EXCEPT !.op = op, !.args = <<a, b>>]

PriceInit == FnInit("calculate_price_similarity", Prices, Prices)

PriceNext == Apply("calculate_price_similarity")

PriceSpec == PriceInit /\ [][PriceNext]_vars

\* the attribute maps of at most n attributes over the given labels and values
InjectiveSeqs(S, n) ==
    {q \in SeqsUpTo(S, n) : \A i, j \in DOMAIN q : i # j => q[i][1] # q[j][1]}

AttrMaps(labels, values, n) == InjectiveSeqs(labels \X values, n)

ScrapedLabels == {<<"C","o","r","e">>, <<"T","h","r","e","a","d","s">>}

CatalogLabels == {<<"c","o","r","e","s">>, <<"n","_","c","o","r","e">>, <<"t","h","r","e","a","d","s">>}

AttrValues == {<<"1","2">>, <<"1","6">>}

SpecSimInit ==
    FnInit("calculate_spec_similarity",
           AttrMaps(ScrapedLabels, AttrValues, MaxAttrs),
           AttrMaps(CatalogLabels, AttrValues, MaxAttrs))

SpecSimNext == Apply("calculate_spec_similarity")

SpecSimSpec == SpecSimInit /\ [][SpecSimNext]_vars

(***************************************************************************)
(* Properties                                                              *)
(***************************************************************************)
Done(t) == call[t].pc = "done"

\* the composite score of catalog row j for caller t's scraped product
RowScore(t, j) == calculate_similarity_score(call[t].scraped_product, db_rows[j])

\* row j decodes and its composite score is at or above caller t's threshold
Reaches(t, j) ==
    /\ ~RowScore(t, j).raised
    /\ RLe(call[t].similarity_threshold, RowScore(t, j).total_score)

\* caller t's result is row j with its composite score stored in it
ReturnsRow(t, j) ==
    /\ call[t].ret # NoResult
    /\ ~RowScore(t, j).raised
    /\ call[t].ret[1] = [similarity_score |-> RowScore(t, j).total_score] @@ db_rows[j]

\* C1: whenever find_best_match returns an entry, the similarity_score it
\* carries is at or above similarity_threshold, and it is the composite score
\* of a catalog row.
C1_NeverBelowThreshold ==
    \A t \in Callers :
        Done(t) /\ call[t].ret # NoResult =>
            /\ RLe(call[t].similarity_threshold, call[t].ret[1].similarity_score)
            /\ \E j \in DOMAIN db_rows : ReturnsRow(t, j)

\* an entry is returned although another row of the catalog scored below the
\* threshold
C1_Witness ==
    /\ Done(1)
    /\ call[1].ret # NoResult
    /\ \E j \in DOMAIN db_rows :
         ~RowScore(1, j).raised /\ ~Reaches(1, j)

\* C2: with no fault, the result is None exactly when no catalog row reaches
\* the threshold, and otherwise a row of maximal composite score among those
\* at or above the threshold (equal to the threshold included), carrying
\* that score.
C2_BestAtOrAboveThreshold ==
    \A t \in Callers :
        Done(t) /\ call[t].e = "none" =>
            /\ call[t].ret = NoResult <=> ~(\E j \in DOMAIN db_rows : Reaches(t, j))
            /\ call[t].ret # NoResult =>
                 \E j \in DOMAIN db_rows :
                     /\ Reaches(t, j)
                     /\ ReturnsRow(t, j)
                     /\ \A k \in DOMAIN db_rows :
                            Reaches(t, k) =>
                                RLe(RowScore(t, k).total_score, RowScore(t, j).total_score)

\* the first row scores exactly the threshold, the second row more, and the
\* second is returned
C2_Witness ==
    /\ Done(1)
    /\ call[1].e = "none"
    /\ Len(db_rows) = 2
    /\ RowScore(1, 1).total_score = call[1].similarity_threshold
    /\ RLt(RowScore(1, 1).total_score, RowScore(1, 2).total_score)
    /\ ReturnsRow(1, 2)

\* C3: when the catalog was read, a row whose scoring raises is skipped alone:
\* a row that decodes and reaches the threshold is still returned as a match.
C3_CandidateFaultIsolated ==
    \A t \in Callers :
        Done(t) /\ call[t].e # "catalog_read"
                /\ (\E j \in DOMAIN db_rows : Reaches(t, j))
            => call[t].ret # NoResult

\* what the caller of find_best_match gets: the value returned and the
\* exception raised
Outcome(t) == <<call[t].ret, call[t].exc>>

\* C4: after a failed catalog read the call reports no match and the caller
\* gets something other than the outcome of a search that found no match.
C4_ReadFaultSurfaced ==
    \A t \in Callers :
        Done(t) /\ call[t].e = "catalog_read" =>
            /\ call[t].ret = NoResult
            /\ Outcome(t) # <<NoResult, "none">>

\* product j of the batch has been handed to find_best_match
Submitted(j) == main.k > j \/ (main.k = j /\ main.pc # "loop")

\* C5: in a batch run every scraped product is eventually submitted to
\* find_best_match, whatever happened in the calls before it.
C5_EveryProductSubmitted ==
    <>(\A j \in DOMAIN scraped_cpus : Submitted(j))

\* a later product is being matched after a call that logged an error
C5_Witness ==
    /\ main.pc = "wait"
    /\ main.k >= 2
    /\ call[1].pc = "score"
    /\ log # <<>>

\* the frame of a call run alone on the rows, the read not failing
RECURSIVE ScoreAll(_)
ScoreAll(f) ==
    IF f.pc = "score" /\ f.i <= Len(f.all_products) THEN ScoreAll(ScoreOne(f))
    ELSE IF f.pc = "score" THEN SelectBest(f)
    ELSE f

Alone(scraped_product, rows, similarity_threshold) ==
    ScoreAll([NewFrame(scraped_product, similarity_threshold)
                  EXCEPT !.pc = "score", !.all_products = rows]).ret

\* C6: a call that runs in parallel with another returns what it returns
\* when run alone against the same catalog.
C6_SameAsAlone ==
    \A t \in Callers :
        Done(t) =>
            call[t].ret = Alone(call[t].scraped_product, db_rows,
                                call[t].similarity_threshold)

\* the three sub-scores of a pair, each from its own comparison
NameOf(scraped_product, db_product) ==
    token_set_ratio(normalize_text(scraped_product.name), normalize_text(db_product.name))

SpecOf(scraped_product, db_product) ==
    calculate_spec_similarity(scraped_product.specs, DecodeSpecs(db_product.specs).v)

PriceOf(scraped_product, db_product) ==
    calculate_price_similarity(scraped_product.price, db_product.price)

Tenfold(r) == RMul(Int2Rat(10), r)

WeightedSum(name, spec, price) ==
    RAdd(RAdd(RMul(Int2Rat(5), name), RMul(Int2Rat(3), spec)), RMul(Int2Rat(2), price))

\* the last pair scored by caller t, when its scoring did not raise
LastScored(t) == call[t].last # NoResult /\ ~call[t].last[1].raised

LastRow(t) == call[t].all_products[call[t].i - 1]

\* C7: the composite score of a scored pair is 0.5 * name + 0.3 * spec +
\* 0.2 * price of the name, spec and price comparisons of that pair.
C7_CompositeIsWeightedSum ==
    \A t \in Callers :
        LastScored(t) =>
            /\ call[t].last[1].name_similarity = NameOf(call[t].scraped_product, LastRow(t))
            /\ call[t].last[1].spec_similarity = SpecOf(call[t].scraped_product, LastRow(t))
            /\ call[t].last[1].price_similarity = PriceOf(call[t].scraped_product, LastRow(t))
            /\ Tenfold(call[t].last[1].total_score) =
                   WeightedSum(NameOf(call[t].scraped_product, LastRow(t)),
                               SpecOf(call[t].scraped_product, LastRow(t)),
                               PriceOf(call[t].scraped_product, LastRow(t)))

\* a pair is scored whose three sub-scores are positive and all different
C7_Witness ==
    /\ LastScored(1)
    /\ RLt(Int2Rat(0), call[1].last[1].name_similarity)
    /\ RLt(call[1].last[1].name_similarity, call[1].last[1].price_similarity)
    /\ RLt(call[1].last[1].price_similarity, call[1].last[1].spec_similarity)

\* the number a price text parses to, after the non-numeric characters go
Parsed(price) == float(SubNonNumeric(Str(price)))

PriceApplied ==
    fn.op = "calculate_price_similarity" /\ fn.done

BothParse == ~Parsed(fn.args[1]).raised /\ ~Parsed(fn.args[2]).raised

\* 100 - |scraped - catalog| / divisor * 100, floored at 0
PriceReference(scraped, catalog, divisor) ==
    RMax(Int2Rat(0),
         RSub(Int2Rat(100),
              RMul(RDiv(RAbs(RSub(scraped, catalog)), divisor), Int2Rat(100))))

\* C8 as stated: for prices that parse, price similarity is
\* 100 - |scraped - catalog| / max(catalog, 1) * 100, floored at 0.
C8_DivisorIsMaxOfCatalogAndOne ==
    PriceApplied /\ BothParse =>
        fn.result = PriceReference(Parsed(fn.args[1]).v, Parsed(fn.args[2]).v,
                                   RMax(Parsed(fn.args[2]).v, Int2Rat(1)))

\* C8 amended: for prices that parse, price similarity is
\* 100 - |scraped - catalog| / divisor * 100, floored at 0, where the divisor
\* is the catalog price itself when it is not 0, and 1 when it is 0.
C8_DivisorIsCatalogOrOne ==
    PriceApplied /\ BothParse =>
        fn.result = PriceReference(Parsed(fn.args[1]).v, Parsed(fn.args[2]).v,
                                   IF Parsed(fn.args[2]).v = Int2Rat(0)
                                   THEN Int2Rat(1)
                                   ELSE Parsed(fn.args[2]).v)

\* a catalog price strictly between 0 and 1 against a different scraped price
C8_Witness ==
    /\ PriceApplied
    /\ BothParse
    /\ RLt(Int2Rat(0), Parsed(fn.args[2]).v)
    /\ RLt(Parsed(fn.args[2]).v, Int2Rat(1))
    /\ Parsed(fn.args[1]).v # Parsed(fn.args[2]).v

\* a price with no digit left after stripping, or with several decimal points
Unparsable(price) ==
    \/ \A i \in DOMAIN SubNonNumeric(Str(price)) : SubNonNumeric(Str(price))[i] = "."
    \/ Cardinality({i \in DOMAIN SubNonNumeric(Str(price)) :
                       SubNonNumeric(Str(price))[i] = "."}) > 1

\* C9: price similarity is the number 0, not an exception, whenever either
\* price has no numeric content, is None, or leaves several decimal points.
C9_UnparsablePriceGivesZero ==
    PriceApplied /\ (Unparsable(fn.args[1]) \/ Unparsable(fn.args[2])) =>
        fn.result = Int2Rat(0)

\* a missing scraped price against a catalog price that parses
C9_Witness ==
    /\ PriceApplied
    /\ fn.args[1] = None
    /\ ~Unparsable(fn.args[2])
    /\ fn.result = Int2Rat(0)

SpecApplied ==
    fn.op = "calculate_spec_similarity" /\ fn.done

LabelSimilarity(label, db_label) ==
    token_set_ratio(normalize_text(label), normalize_text(db_label))

\* the catalog attributes whose label similarity to the label exceeds 80
AcceptedLabels(label, db_specs) ==
    {j \in DOMAIN db_specs : RLt(Int2Rat(80), LabelSimilarity(label, db_specs[j][1]))}

ValueSimilarities(value, db_specs, accepted) ==
    {token_set_ratio(normalize_text(value), normalize_text(db_specs[j][2])) : j \in accepted}

Greatest(S) == CHOOSE m \in S : \A x \in S : RLe(x, m)

AttributeReference(attr, db_specs) ==
    IF AcceptedLabels(attr[1], db_specs) = {} THEN Int2Rat(0)
    ELSE Greatest(ValueSimilarities(attr[2], db_specs, AcceptedLabels(attr[1], db_specs)))

SpecReference(scraped_specs, db_specs) ==
    IF scraped_specs = <<>> \/ db_specs = <<>> THEN Int2Rat(0)
    ELSE RDiv(RSum([i \in DOMAIN scraped_specs |->
                        AttributeReference(scraped_specs[i], db_specs)]),
              Int2Rat(Len(scraped_specs)))

\* C10: spec similarity is 0 when either map is empty, and otherwise the
\* average over the scraped attributes of the greatest value similarity among
\* the catalog attributes whose label similarity exceeds 80 (0 when there is
\* none); one more catalog attribute never lowers it.
C10_SpecSimilarityIsReference ==
    SpecApplied =>
        /\ fn.result = SpecReference(fn.args[1], fn.args[2])
        /\ \A extra \in CatalogLabels \X AttrValues :
               extra[1] \notin Keys(fn.args[2]) =>
                   RLe(fn.result,
                       calculate_spec_similarity(fn.args[1], Append(fn.args[2], extra)))

\* two scraped attributes; one pairs with a catalog label above 80 and equal
\* values, the other meets only a catalog label of similarity exactly 80
C10_Witness ==
    /\ SpecApplied
    /\ Len(fn.args[1]) = 2
    /\ fn.result = Int2Rat(50)
    /\ \E i \in DOMAIN fn.args[1], j \in DOMAIN fn.args[2] :
           /\ LabelSimilarity(fn.args[1][i][1], fn.args[2][j][1]) = Int2Rat(80)
           /\ fn.args[1][i][2] = fn.args[2][j][2]
           /\ AcceptedLabels(fn.args[1][i][1], fn.args[2]) = {}

(***************************************************************************)
(* ScenarioSpec: find_best_match on catalogs that hold the Ryzen 9 5900X   *)
(* record at 289.99 and records of equal score, for the listing            *)
(* "AMD Ryzen 9" at $299.99 and the listing "Ryzen 9" at 10                *)
(***************************************************************************)
ScrapedRyzen9 ==
    [name |-> <<"A","M","D"," ","R","y","z","e","n"," ","9">>,
     price |-> <<"$","2","9","9",".","9","9">>, specs |-> Cores12]

EntryRyzen5900X ==
    [name |-> <<"R","y","z","e","n"," ","9"," ","5","9","0","0","X">>,
     price |-> <<"2","8","9",".","9","9">>, specs |-> json_dumps(CoreCount12)]

ScenarioScraped == {ScrapedRyzen9, ScrapedB}

\* the record of EntryPlain under a name in capitals: another record with
\* the same normalized name
EntryCapitals ==
    [name |-> <<"R","Y","Z","E","N"," ","9">>, price |-> <<"1","0">>, specs |-> None]

ScenarioEntries == {EntryRyzen5900X, EntryPlain, EntryCapitals, EntryI7}

ScenarioInit ==
    /\ db_rows \in SeqsUpTo(ScenarioEntries, MaxCatalog)
    /\ cursor = ClosedCursor
    /\ \E p \in ScenarioScraped, th \in Thresholds :
         call = [NoCall EXCEPT ![1] = NewFrame(p, th)]
    /\ scraped_cpus = <<>>
    /\ main = IdleMain
    /\ log = <<>>
    /\ fn = IdleFn

ScenarioSpec == ScenarioInit /\ [][Next]_vars

\* the call of the scenario has returned: the listing, the one-record
\* catalog, the default threshold, the catalog read without fault
ScenarioDone ==
    /\ Done(1)
    /\ call[1].e = "none"
    /\ call[1].scraped_product = ScrapedRyzen9
    /\ call[1].similarity_threshold = Int2Rat(DefaultThreshold)
    /\ db_rows = <<EntryRyzen5900X>>

\* C11: in the scenario the labels "Cores" and "core_count" have a label
\* similarity above 80 after normalization, the composite score is at least
\* the default threshold 70, and find_best_match returns the catalog entry.
C11_ScenarioMatches ==
    ScenarioDone =>
        /\ RLt(Int2Rat(80), LabelSimilarity(Cores12[1][1], CoreCount12[1][1]))
        /\ RLe(Int2Rat(DefaultThreshold), RowScore(1, 1).total_score)
        /\ ReturnsRow(1, 1)

\* what the code computes in the scenario: label similarity 160/3, name
\* similarity 700/9, spec similarity 0, composite below 70, result None
C11_ScenarioOutcome ==
    ScenarioDone =>
        /\ LabelSimilarity(Cores12[1][1], CoreCount12[1][1]) = Rat(160, 3)
        /\ RowScore(1, 1).name_similarity = Rat(700, 9)
        /\ RowScore(1, 1).spec_similarity = Int2Rat(0)
        /\ RLt(RowScore(1, 1).total_score, Int2Rat(DefaultThreshold))
        /\ call[1].ret = NoResult

(***************************************************************************)
(* re.search with re.IGNORECASE, for the patterns of the rule tables.  A   *)
(* pattern is a sequence of items; a character outside ASCII is written    *)
(* "uXXXX" after its code point.                                           *)
(***************************************************************************)
Unbounded == 0 - 1

ArabicLetters ==
    {"u0623","u0625","u0627","u0628","u0629","u062A","u062C","u062F","u0630","u0631","u0632","u0633","u0635","u0642","u0643","u0644","u0645","u0646","u0648","u064A"}

ArabicIndicDigits ==
    {"u0660","u0661","u0662","u0663","u0664","u0665","u0666","u0667","u0668","u0669"}

Item(t, c, lo, hi, body, g) == [t |-> t, c |-> c, lo |-> lo, hi |-> hi, body |-> body, g |-> g]

Lits(w) == [i \in DOMAIN w |-> Item("lit", w[i], 1, 1, <<>>, 0)]

Cat(k) == <<Item("cat", k, 1, 1, <<>>, 0)>>

Rep(lo, hi, body) == <<Item("rep", "", lo, hi, body, 0)>>

Alt(alts) == <<Item("alt", "", 1, 1, alts, 0)>>

Group(g, body) == <<Item("open", "", 1, 1, <<>>, g)>> \o body \o <<Item("close", "", 1, 1, <<>>, g)>>

\* \d, \s and \w on str: the Unicode digits, white space and word characters
InCategory(k, c) ==
    CASE k = "d" -> IsDigit(c) \/ c \in ArabicIndicDigits
      [] k = "s" -> IsSpace(c)
      [] k = "w" -> IsWordChar(c) \/ c \in ArabicLetters \/ c \in ArabicIndicDigits

NoMatch == [ok |-> FALSE, end |-> 0, caps |-> <<>>]

NoCaps(groups) == [g \in 1..groups |-> [s |-> 0, e |-> 0]]

\* one more round of a repetition: its bounds lowered by one
Again(it) ==
    [it EXCEPT !.lo = IF it.lo > 0 THEN it.lo - 1 ELSE 0,
               !.hi = IF it.hi = Unbounded THEN Unbounded ELSE it.hi - 1]

RECURSIVE Match(_, _, _, _)
RECURSIVE MatchAlt(_, _, _, _, _, _)

\* a greedy repetition gave r for one more round: take it, else stop here
\* when the lower bound is met
RepElse(r, it, rest, s, pos, caps) ==
    IF r.ok THEN r
    ELSE IF it.lo <= 0 THEN Match(rest, s, pos, caps)
    ELSE NoMatch

MatchRep(it, rest, s, pos, caps) ==
    IF it.hi = 0 THEN Match(rest, s, pos, caps)
    ELSE RepElse(Match(it.body \o <<Again(it)>> \o rest, s, pos, caps),
                 it, rest, s, pos, caps)

AltElse(r, alts, k, rest, s, pos, caps) ==
    IF r.ok THEN r ELSE MatchAlt(alts, k + 1, rest, s, pos, caps)

\* the alternatives are tried left to right
MatchAlt(alts, k, rest, s, pos, caps) ==
    IF k > Len(alts) THEN NoMatch
    ELSE AltElse(Match(alts[k] \o rest, s, pos, caps), alts, k, rest, s, pos, caps)

MatchItem(it, rest, s, pos, caps) ==
    CASE it.t = "lit" ->
           IF pos <= Len(s) /\ LowerChar(s[pos]) = LowerChar(it.c)
           THEN Match(rest, s, pos + 1, caps) ELSE NoMatch
      [] it.t = "cat" ->
           IF pos <= Len(s) /\ InCategory(it.c, s[pos])
           THEN Match(rest, s, pos + 1, caps) ELSE NoMatch
      [] it.t = "open" -> Match(rest, s, pos, [caps EXCEPT ![it.g].s = pos])
      [] it.t = "close" -> Match(rest, s, pos, [caps EXCEPT ![it.g].e = pos])
      [] it.t = "rep" -> MatchRep(it, rest, s, pos, caps)
      [] it.t = "alt" -> MatchAlt(it.body, 1, rest, s, pos, caps)

\* the match of the items at position pos of s, backtracking as re does
Match(items, s, pos, caps) ==
    IF items = <<>> THEN [ok |-> TRUE, end |-> pos, caps |-> caps]
    ELSE MatchItem(Head(items), Tail(items), s, pos, caps)

RECURSIVE SearchFrom(_, _, _, _)
SearchElse(r, pattern, groups, s, start) ==
    IF r.ok THEN r ELSE SearchFrom(pattern, groups, s, start + 1)

\* the leftmost position where the pattern matches
SearchFrom(pattern, groups, s, start) ==
    IF start > Len(s) + 1 THEN NoMatch
    ELSE SearchElse(Match(pattern, s, start, NoCaps(groups)), pattern, groups, s, start)

\* re.search(pattern, string, re.IGNORECASE) on a str
re_search(rule, string) == SearchFrom(rule.pattern, rule.groups, string, 1)

\* match.group(g)
group(string, match, g) == SubSeq(string, match.caps[g].s, match.caps[g].e - 1)

\* match.groups()
groups(string, match) == [g \in DOMAIN match.caps |-> group(string, match, g)]

(***************************************************************************)
(* The rule tables of the three extract_specifications                     *)
(***************************************************************************)
\* src/cpuhardware.py lines 43-49
CpuSpecPatterns ==
  <<
    [pattern |-> Group(1, Rep(1, Unbounded, Cat("d"))) \o Rep(0, Unbounded, Cat("s"))
                 \o Lits(<<"C","o","r","e">>) \o Rep(0, 1, Lits(<<"s">>)),
     groups |-> 1, key |-> <<"C","o","r","e","s">>],
    [pattern |-> Group(1, Rep(1, Unbounded, Cat("d"))) \o Rep(0, Unbounded, Cat("s"))
                 \o Lits(<<"T","h","r","e","a","d">>) \o Rep(0, 1, Lits(<<"s">>)),
     groups |-> 1, key |-> <<"T","h","r","e","a","d","s">>],
    [pattern |-> Group(1, Rep(1, Unbounded, Cat("d")) \o Rep(0, 1, Lits(<<".">>)
                 \o Rep(1, Unbounded, Cat("d")))) \o Rep(0, Unbounded, Cat("s"))
                 \o Lits(<<"G","H","z">>) \o Rep(0, Unbounded, Cat("s"))
                 \o Lits(<<"B","a","s","e">>),
     groups |-> 1, key |-> <<"B","a","s","e"," ","C","l","o","c","k">>],
    [pattern |-> Group(1, Rep(1, Unbounded, Cat("d")) \o Rep(0, 1, Lits(<<".">>)
                 \o Rep(1, Unbounded, Cat("d")))) \o Rep(0, Unbounded, Cat("s"))
                 \o Lits(<<"G","H","z">>) \o Rep(0, Unbounded, Cat("s"))
                 \o Lits(<<"B","o","o","s","t">>),
     groups |-> 1, key |-> <<"B","o","o","s","t"," ","C","l","o","c","k">>],
    [pattern |-> Group(1, Alt(<<Lits(<<"R","y","z","e","n">>) \o Rep(0, Unbounded, Cat("s"))
                 \o Rep(1, Unbounded, Cat("d")), Lits(<<"C","o","r","e">>)
                 \o Rep(0, Unbounded, Cat("s")) \o Lits(<<"i">>)
                 \o Rep(1, Unbounded, Cat("d"))>>)),
     groups |-> 1, key |-> <<"S","e","r","i","e","s">>] >>

\* src/laptops.py lines 66-73
LaptopArabicPatterns ==
  <<
    [pattern |-> Group(1, Rep(1, Unbounded, Cat("d"))) \o Rep(0, Unbounded, Cat("s"))
                 \o Lits(<<"u062C","u064A","u062C","u0627","u0628","u0627","u064A","u062A">>)
                 \o Rep(0, Unbounded, Cat("s"))
                 \o Lits(<<"u0630","u0627","u0643","u0631","u0629">>),
     groups |-> 1, key |-> <<"R","A","M">>],
    [pattern |-> Group(1, Rep(1, Unbounded, Cat("d"))) \o Rep(0, Unbounded, Cat("s"))
                 \o Lits(<<"u062C","u064A","u062C","u0627","u0628","u0627","u064A","u062A">>)
                 \o Rep(0, Unbounded, Cat("s")) \o Lits(<<"S","S","D">>),
     groups |-> 1, key |-> <<"S","S","D">>],
    [pattern |-> Group(1, Rep(1, Unbounded, Cat("d"))) \o Rep(0, Unbounded, Cat("s"))
                 \o Lits(<<"u062A","u064A","u0631","u0627","u0628","u0627","u064A","u062A">>)
                 \o Rep(0, Unbounded, Cat("s")) \o Lits(<<"H","D","D">>),
     groups |-> 1, key |-> <<"H","D","D">>],
    [pattern |-> Group(1, Alt(<<Lits(<<"u0625","u0646","u062A","u0644">>), Lits(<<"A","M","D">>)>>))
                 \o Rep(1, Unbounded, Cat("s"))
                 \o Group(2, Alt(<<Lits(<<"u0643","u0648","u0631">>), Lits(<<"u0631","u0627","u064A","u0632","u0646">>)>>))
                 \o Rep(0, Unbounded, Cat("s")) \o Group(3, Rep(1, Unbounded, Cat("w"))),
     groups |-> 3, key |-> <<"P","r","o","c","e","s","s","o","r">>],
    [pattern |-> Group(1, Rep(1, Unbounded, Cat("d")) \o Rep(0, 1, Lits(<<".">>)
                 \o Rep(1, Unbounded, Cat("d")))) \o Rep(0, Unbounded, Cat("s"))
                 \o Lits(<<"u0628","u0648","u0635","u0629">>),
     groups |-> 1, key |-> <<"S","c","r","e","e","n"," ","S","i","z","e">>],
    [pattern |-> Group(1, Alt(<<Lits(<<"u0648","u064A","u0646","u062F","u0648","u0632">>), Lits(<<"u0644","u064A","u0646","u0643","u0633">>), Lits(<<"u0645","u0627","u0643">>)
                 \o Rep(0, Unbounded, Cat("s")) \o Lits(<<"u0623","u0648">>)
                 \o Rep(0, Unbounded, Cat("s")) \o Lits(<<"u0625","u0633">>)>>)),
     groups |-> 1, key |-> <<"O","p","e","r","a","t","i","n","g"," ","S","y","s","t","e","m">>] >>

\* src/laptops.py lines 76-83
LaptopEnglishPatterns ==
  <<
    [pattern |-> Group(1, Rep(1, Unbounded, Cat("d"))) \o Rep(0, Unbounded, Cat("s"))
                 \o Lits(<<"G","B">>) \o Rep(0, Unbounded, Cat("s")) \o Lits(<<"R","A","M">>),
     groups |-> 1, key |-> <<"R","A","M">>],
    [pattern |-> Group(1, Rep(1, Unbounded, Cat("d"))) \o Rep(0, Unbounded, Cat("s"))
                 \o Lits(<<"G","B">>) \o Rep(0, Unbounded, Cat("s")) \o Lits(<<"S","S","D">>),
     groups |-> 1, key |-> <<"S","S","D">>],
    [pattern |-> Group(1, Rep(1, Unbounded, Cat("d"))) \o Rep(0, Unbounded, Cat("s"))
                 \o Lits(<<"T","B">>) \o Rep(0, Unbounded, Cat("s")) \o Lits(<<"H","D","D">>),
     groups |-> 1, key |-> <<"H","D","D">>],
    [pattern |-> Group(1, Alt(<<Lits(<<"I","n","t","e","l">>), Lits(<<"A","M","D">>)>>))
                 \o Rep(1, Unbounded, Cat("s"))
                 \o Group(2, Alt(<<Lits(<<"C","o","r","e">>), Lits(<<"R","y","z","e","n">>)>>))
                 \o Rep(0, Unbounded, Cat("s")) \o Group(3, Rep(1, Unbounded, Cat("w"))),
     groups |-> 3, key |-> <<"P","r","o","c","e","s","s","o","r">>],
    [pattern |-> Group(1, Rep(1, Unbounded, Cat("d")) \o Rep(0, 1, Lits(<<".">>)
                 \o Rep(1, Unbounded, Cat("d")))) \o Rep(0, Unbounded, Cat("s"))
                 \o Lits(<<"i","n","c","h">>),
     groups |-> 1, key |-> <<"S","c","r","e","e","n"," ","S","i","z","e">>],
    [pattern |-> Group(1, Alt(<<Lits(<<"W","i","n","d","o","w","s">>), Lits(<<"L","i","n","u","x">>), Lits(<<"M","a","c","O","S">>)>>)),
     groups |-> 1, key |-> <<"O","p","e","r","a","t","i","n","g"," ","S","y","s","t","e","m">>] >>

\* src/laptopexcel.py lines 63-70
ExcelSpecPatterns ==
  <<
    [pattern |-> Group(1, Rep(1, Unbounded, Cat("d"))) \o Rep(0, Unbounded, Cat("s"))
                 \o Lits(<<"u062C","u064A","u062C","u0627","u0628","u0627","u064A","u062A">>)
                 \o Rep(0, Unbounded, Cat("s"))
                 \o Alt(<<Lits(<<"u0631","u0627","u0645">>), Lits(<<"u0630","u0627","u0643","u0631","u0629">>)>>),
     groups |-> 1, key |-> <<"R","A","M">>],
    [pattern |-> Group(1, Rep(1, Unbounded, Cat("d"))) \o Rep(0, Unbounded, Cat("s"))
                 \o Lits(<<"u062C","u064A","u062C","u0627","u0628","u0627","u064A","u062A">>)
                 \o Rep(0, Unbounded, Cat("s")) \o Lits(<<"S","S","D">>),
     groups |-> 1, key |-> <<"S","S","D">>],
    [pattern |-> Group(1, Rep(1, Unbounded, Cat("d"))) \o Rep(0, Unbounded, Cat("s"))
                 \o Lits(<<"u062A","u064A","u0631","u0627","u0628","u0627","u064A","u062A">>)
                 \o Rep(0, Unbounded, Cat("s"))
                 \o Alt(<<Lits(<<"u0642","u0631","u0635"," ","u0635","u0644","u0628">>), Lits(<<"H","D","D">>)>>),
     groups |-> 1, key |-> <<"H","D","D">>],
    [pattern |-> Group(1, Alt(<<Lits(<<"u0625","u0646","u062A","u0644">>), Lits(<<"I","n","t","e","l">>), Lits(<<"A","M","D">>)>>))
                 \o Rep(1, Unbounded, Cat("s"))
                 \o Alt(<<Lits(<<"u0643","u0648","u0631">>), Lits(<<"C","o","r","e">>), Lits(<<"u0631","u0627","u064A","u0632","u0646">>), Lits(<<"R","y","z","e","n">>)>>)
                 \o Rep(0, Unbounded, Cat("s")) \o Group(2, Rep(1, Unbounded, Cat("w"))),
     groups |-> 2, key |-> <<"P","r","o","c","e","s","s","o","r">>],
    [pattern |-> Group(1, Rep(1, Unbounded, Cat("d")) \o Rep(0, 1, Lits(<<".">>)
                 \o Rep(1, Unbounded, Cat("d")))) \o Rep(0, Unbounded, Cat("s"))
                 \o Alt(<<Lits(<<"u0628","u0648","u0635","u0629">>), Lits(<<"i","n","c","h">>)>>),
     groups |-> 1, key |-> <<"S","c","r","e","e","n"," ","S","i","z","e">>],
    [pattern |-> Group(1, Alt(<<Lits(<<"u0648","u064A","u0646","u062F","u0648","u0632">>), Lits(<<"W","i","n","d","o","w","s">>), Lits(<<"u0644","u064A","u0646","u0643","u0633">>), Lits(<<"L","i","n","u","x">>), Lits(<<"u0645","u0627","u0643">>)
                 \o Rep(0, Unbounded, Cat("s")) \o Lits(<<"u0623","u0648">>)
                 \o Rep(0, Unbounded, Cat("s"))
                 \o Lits(<<"u0625","u0633">>), Lits(<<"M","a","c","O","S">>)>>)),
     groups |-> 1, key |-> <<"O","p","e","r","a","t","i","n","g"," ","S","y","s","t","e","m">>] >>


(***************************************************************************)
(* extract_specifications: the result is [raised, v], v the specs dict in  *)
(* insertion order; re.search raises TypeError when description is None    *)
(***************************************************************************)
TypeError == [raised |-> TRUE, v |-> <<>>]

Returned(specs) == [raised |-> FALSE, v |-> specs]

\* cpuhardware.py line 54: specs[key] = match.group(1)
StoreGroup1(rule, description, match, specs) ==
    IF match.ok THEN DictSet(specs, rule.key, group(description, match, 1)) ELSE specs

\* cpuhardware.py lines 51-54: every rule of the table is tried
RECURSIVE EveryRuleGroup1(_, _, _, _)
EveryRuleGroup1(rules, i, description, specs) ==
    IF i > Len(rules) THEN specs
    ELSE EveryRuleGroup1(rules, i + 1, description,
                         StoreGroup1(rules[i], description,
                                     re_search(rules[i], description), specs))

\* AmazonCPUScraper.extract_specifications
extract_specifications_cpuhardware(description) ==
    IF description = None THEN TypeError
    ELSE Returned(EveryRuleGroup1(CpuSpecPatterns, 1, description, <<>>))

RECURSIVE UntilFirstMatch(_, _, _, _)
\* laptops.py lines 88-90 and 96-98: specs[key] = match.group(1); break
BreakOnMatch(rules, i, description, match, specs) ==
    IF match.ok THEN DictSet(specs, rules[i].key, group(description, match, 1))
    ELSE UntilFirstMatch(rules, i + 1, description, specs)

\* laptops.py lines 86-90 and 94-98: the loop ends at the first rule that matches
UntilFirstMatch(rules, i, description, specs) ==
    IF i > Len(rules) THEN specs
    ELSE BreakOnMatch(rules, i, description, re_search(rules[i], description), specs)

\* laptops.py lines 93-98: if not specs, the English rules
EnglishIfEmpty(description, specs) ==
    IF specs = <<>> THEN UntilFirstMatch(LaptopEnglishPatterns, 1, description, specs)
    ELSE specs

\* LaptopScraper.extract_specifications of laptops.py
extract_specifications_laptops(description) ==
    IF description = None THEN TypeError
    ELSE Returned(EnglishIfEmpty(description,
                                 UntilFirstMatch(LaptopArabicPatterns, 1, description, <<>>)))

\* laptopexcel.py line 77: specs[key] = ' '.join(match.groups())
StoreGroups(rule, description, match, specs) ==
    IF match.ok THEN DictSet(specs, rule.key, Join(groups(description, match))) ELSE specs

\* laptopexcel.py lines 73-77: every rule of the table is tried
RECURSIVE EveryRuleGroups(_, _, _, _)
EveryRuleGroups(rules, i, description, specs) ==
    IF i > Len(rules) THEN specs
    ELSE EveryRuleGroups(rules, i + 1, description,
                         StoreGroups(rules[i], description,
                                     re_search(rules[i], description), specs))

\* LaptopScraper.extract_specifications of laptopexcel.py
extract_specifications_laptopexcel(description) ==
    IF description = None THEN TypeError
    ELSE Returned(EveryRuleGroups(ExcelSpecPatterns, 1, description, <<>>))

Variants == {"cpuhardware", "laptops", "laptopexcel"}

extract_specifications(variant, description) ==
    CASE variant = "cpuhardware" -> extract_specifications_cpuhardware(description)
      [] variant = "laptops" -> extract_specifications_laptops(description)
      [] variant = "laptopexcel" -> extract_specifications_laptopexcel(description)

\* the rule table of a variant, in the order the rules are tried
RuleTable(variant) ==
    CASE variant = "cpuhardware" -> CpuSpecPatterns
      [] variant = "laptops" -> LaptopArabicPatterns \o LaptopEnglishPatterns
      [] variant = "laptopexcel" -> ExcelSpecPatterns

(***************************************************************************)
(* ExtractSpec: one call of extract_specifications of one of the variants  *)
(* on a description made of listing fragments, or on None                  *)
(***************************************************************************)
MaxFragments == 2

\* "8GB RAM"
FragRam ==
    <<"8","G","B"," ","R","A","M">>

\* "256 GB SSD"
FragSsd ==
    <<"2","5","6"," ","G","B"," ","S","S","D">>

\* "Intel Core i7"
FragIntel ==
    <<"I","n","t","e","l"," ","C","o","r","e"," ","i","7">>

\* "15.6 inch"
FragInch ==
    <<"1","5",".","6"," ","i","n","c","h">>

\* "windows 11"
FragWindows ==
    <<"w","i","n","d","o","w","s"," ","1","1">>

\* "12 Cores"
FragCores ==
    <<"1","2"," ","C","o","r","e","s">>

\* "3.7GHz Boost"
FragBoost ==
    <<"3",".","7","G","H","z"," ","B","o","o","s","t">>

\* "16 ........ ....."
FragRamArabic ==
    <<"1","6"," ","u062C","u064A","u062C","u0627","u0628","u0627","u064A","u062A"," ","u0630","u0627","u0643","u0631","u0629">>

\* ".... ... i5"
FragIntelArabic ==
    <<"u0625","u0646","u062A","u0644"," ","u0643","u0648","u0631"," ","i","5">>

\* "AMD Ryzen 7"
FragRyzen ==
    <<"A","M","D"," ","R","y","z","e","n"," ","7">>

\* "No description available"
FragNone ==
    <<"N","o"," ","d","e","s","c","r","i","p","t","i","o","n"," ","a","v","a","i","l","a","b","l","e">>

Fragments ==
    {FragRam, FragSsd, FragIntel, FragInch, FragWindows, FragCores, FragBoost, FragRamArabic, FragIntelArabic, FragRyzen, FragNone}

\* the fragments of a description, joined by single spaces as clean_text
\* leaves them
Descriptions ==
    {Join(q) : q \in {q \in SeqsUpTo(Fragments, MaxFragments) :
                          \A i, j \in DOMAIN q : i # j => q[i] # q[j]}}

ExtractInit ==
    /\ db_rows = <<>>
    /\ cursor = ClosedCursor
    /\ call = NoCall
    /\ scraped_cpus = <<>>
    /\ main = IdleMain
    /\ log = <<>>
    /\ \E variant \in Variants, description \in Descriptions \cup {None} :
         fn = [op |-> variant, args |-> <<description>>, done |-> FALSE,
               result |-> Returned(<<>>)]

Extract ==
    /\ fn.op \in Variants
    /\ ~fn.done
    /\ fn' = [fn EXCEPT !.done = TRUE,
                        !.result = extract_specifications(fn.op, fn.args[1])]
    /\ UNCHANGED <<db_rows, cursor, call, scraped_cpus, main, log>>

ExtractSpec == ExtractInit /\ [][Extract]_vars

(***************************************************************************)
(* Properties of extract_specifications                                    *)
(***************************************************************************)
Extracted == fn.op \in Variants /\ fn.done

\* rule i of the table matches the description, and no earlier rule with the
\* same label does
Populates(rules, i, description) ==
    /\ re_search(rules[i], description).ok
    /\ \A j \in 1..(i - 1) :
           rules[j].key = rules[i].key => ~re_search(rules[j], description).ok

\* all captured groups of the first occurrence, joined with single spaces
JoinedGroups(rule, description) ==
    Join(groups(description, re_search(rule, description)))

\* the map of section 4.1: one entry per label of a matching rule
ExpectedSpecs(rules, description) ==
    {<<rules[i].key, JoinedGroups(rules[i], description)>> :
         i \in {k \in DOMAIN rules : Populates(rules, k, description)}}

\* C12: for every description and every variant, extract_specifications
\* returns exactly the map that holds, for each rule whose pattern matches,
\* the rule's label with all captured groups of the first occurrence joined
\* with single spaces, and nothing for a rule that does not match.
C12_EveryMatchingRuleExtracted ==
    Extracted /\ fn.args[1] # None =>
        /\ ~fn.result.raised
        /\ Range(fn.result.v) = ExpectedSpecs(RuleTable(fn.op), fn.args[1])

\* the same statement for the variants of cpuhardware.py and laptopexcel.py
ExtractedAsExpectedButLaptops ==
    Extracted /\ fn.args[1] # None /\ fn.op # "laptops" =>
        /\ ~fn.result.raised
        /\ Range(fn.result.v) = ExpectedSpecs(RuleTable(fn.op), fn.args[1])

\* C13: extract_specifications called with an empty description, or with
\* None for a missing one, returns an empty map and raises no error.
C13_EmptyOrMissingGivesEmptyMap ==
    Extracted /\ (fn.args[1] = <<>> \/ fn.args[1] = None) =>
        /\ ~fn.result.raised
        /\ fn.result.v = <<>>

\* the part of C13 about the empty description, and the description the
\* laptop scrapers substitute for a missing one
EmptyDescriptionGivesEmptyMap ==
    Extracted /\ (fn.args[1] = <<>> \/ fn.args[1] = FragNone) =>
        /\ ~fn.result.raised
        /\ fn.result.v = <<>>

(***************************************************************************)
(* Frame of find_best_match                                                *)
(***************************************************************************)
\* caller t has read the catalog: all_products holds the fetched records
HasRead(t) == call[t].pc = "score"

\* in this step caller t returns the record fetched at position j with the
\* field similarity_score added, the fields delivered by the reader unchanged
Annotated(t, j) ==
    /\ call'[t].ret # NoResult
    /\ call'[t].matches # <<>>
    /\ call'[t].matches[1].product = j
    /\ call'[t].ret[1] = call'[t].all_products[j]
    /\ call'[t].all_products[j] =
           [similarity_score |-> call'[t].matches[1].score] @@ call[t].all_products[j]

InRange(score) == RLe(Int2Rat(0), score) /\ RLe(score, Int2Rat(100))

\* C15: the name, spec and price similarity of every scored pair and its
\* composite score lie in [0,100], and so does the score stored in the entry
\* find_best_match returns.
C15_ScoresWithinRange ==
    \A t \in Callers :
        /\ LastScored(t) =>
               /\ InRange(call[t].last[1].name_similarity)
               /\ InRange(call[t].last[1].spec_similarity)
               /\ InRange(call[t].last[1].price_similarity)
               /\ InRange(call[t].last[1].total_score)
        /\ call[t].ret # NoResult => InRange(call[t].ret[1].similarity_score)

\* an entry with catalog price 0 was scored against a scraped price of 10,
\* ten times the divisor above it: price similarity is floored at 0, and the
\* entry is returned with its score
C15_Witness ==
    /\ Done(1)
    /\ LastScored(1)
    /\ LastRow(1).price = <<"0">>
    /\ call[1].scraped_product.price = <<"$","1","0",".","0","0">>
    /\ call[1].last[1].price_similarity = Int2Rat(0)
    /\ call[1].ret # NoResult
    /\ call[1].ret[1].price = <<"0">>

\* the position in the fetched rows of the record caller t returns
Best(t) == call[t].matches[1].product

\* row k reaches the threshold with the same composite score as row j
Ties(t, j, k) ==
    /\ Reaches(t, j)
    /\ Reaches(t, k)
    /\ RowScore(t, k).total_score = RowScore(t, j).total_score

\* C16: when several rows share the highest composite score at or above the
\* threshold, find_best_match returns the one that comes first in the order
\* the catalog reader delivered.
C16_FirstOfTiesReturned ==
    \A t \in Callers :
        Done(t) /\ call[t].e = "none" /\ call[t].ret # NoResult =>
            /\ ReturnsRow(t, Best(t))
            /\ call[t].ret[1] = call[t].all_products[Best(t)]
            /\ \A k \in DOMAIN db_rows :
                   /\ Reaches(t, k) =>
                          RLe(RowScore(t, k).total_score, RowScore(t, Best(t)).total_score)
                   /\ Ties(t, Best(t), k) => Best(t) <= k

\* two different records tie at the highest score; the first is returned
C16_Witness ==
    /\ Done(1)
    /\ call[1].e = "none"
    /\ Len(db_rows) = 2
    /\ db_rows[1] # db_rows[2]
    /\ Ties(1, 1, 2)
    /\ Best(1) = 1
    /\ call[1].ret[1].name = db_rows[1].name
    /\ call[1].ret[1].name # db_rows[2].name

(***************************************************************************)
(* LaptopScraper.insert_laptops_to_db (laptops.py lines 205-239).  db_rows *)
(* is the laptops table as the connection sees it, scraped_cpus the list   *)
(* passed as laptops, main the position in the loop, log the messages of   *)
(* the current call.  The cursor also holds the collation under which the  *)
(* table compares names (the schema is not part of the repository) and the *)
(* number of rows that are committed.                                      *)
(***************************************************************************)
MaxTable == 1

LaptopHP ==
    [name |-> <<"H","P"," ","1","5">>, price |-> <<"1","5","0","0","0">>,
     link |-> <<"/","h","p">>, specs |-> << <<<<"R","A","M">>, <<"8">>>> >>,
     description |-> <<"8","G","B"," ","R","A","M">>]

\* the same listing scraped again at another price
LaptopHPAgain == [LaptopHP EXCEPT !.price = <<"1","4","5","0","0">>]

\* a listing whose name differs from LaptopHP's by case only
LaptopHPLower ==
    [LaptopHP EXCEPT !.name = <<"h","p"," ","1","5">>, !.link = <<"/","h","p","2">>]

LaptopPool == {LaptopHP, LaptopHPAgain, LaptopHPLower}

\* lines 228-234: the values of the INSERT, the specs as JSON text
Row(laptop) ==
    [name |-> laptop.name, price |-> laptop.price, link |-> laptop.link,
     specs |-> json_dumps(laptop.specs), description |-> laptop.description]

Collations == {"bin", "ci"}

\* name = ? under the collation of the table
SameName(collation, a, b) ==
    IF collation = "ci" THEN Lower(a) = Lower(b) ELSE a = b

\* line 212: SELECT COUNT(*) FROM laptops WHERE name = ?
CountByName(collation, rows, name) ==
    Cardinality({i \in DOMAIN rows : SameName(collation, rows[i].name, name)})

DistinctNames(rows) ==
    \A i, j \in DOMAIN rows : i # j => rows[i].name # rows[j].name

Tables ==
    {[i \in DOMAIN q |-> Row(q[i])] :
         q \in {q \in SeqsUpTo(LaptopPool, MaxTable) : DistinctNames(q)}}

\* line 216 with the count compared to 1
AlreadyExists_MoreThanOne(result) == result[1] > 1

\* line 216: if result[0] > 0
AlreadyExists(result) == result[1] > 0

\* the loop goes on to the next laptop, or the call returns after the last
NextLaptop(m) ==
    IF m.k < Len(scraped_cpus) THEN [m EXCEPT !.pc = "select", !.k = m.k + 1]
    ELSE [m EXCEPT !.pc = "returned"]

\* lines 238-239: except mariadb.Error: logger.error(...); the loop goes on
OnDbError ==
    /\ main' = NextLaptop(main)
    /\ log' = Append(log, "db_error")

LaptopInit ==
    /\ db_rows \in Tables
    /\ \E collation \in Collations :
         cursor = [has_result |-> FALSE, pending |-> <<>>,
                   collation |-> collation, committed |-> Len(db_rows)]
    /\ call = NoCall
    /\ scraped_cpus = <<>>
    /\ main = IdleMain
    /\ log = <<>>
    /\ fn = IdleFn

\* a call insert_laptops_to_db(laptops); line 211: for laptop in laptops
InsertCall ==
    /\ main.pc \in {"idle", "returned"}
    /\ \E laptops \in SeqsUpTo(LaptopPool, MaxBatch) :
         /\ scraped_cpus' = laptops
         /\ main' = IF laptops = <<>> THEN [IdleMain EXCEPT !.pc = "returned"]
                    ELSE [IdleMain EXCEPT !.pc = "select"]
    /\ log' = <<>>
    /\ UNCHANGED <<db_rows, cursor, call, fn>>

\* lines 213-214: self.cursor.execute(query, (laptop['name'],))
SelectCount ==
    /\ main.pc = "select"
    /\ \E fail \in BOOLEAN :
         IF fail
         THEN OnDbError /\ UNCHANGED cursor
         ELSE /\ cursor' = [cursor EXCEPT
                              !.has_result = TRUE,
                              !.pending = <<CountByName(cursor.collation, db_rows,
                                                        scraped_cpus[main.k].name)>>]
              /\ main' = [main EXCEPT !.pc = "fetchone"]
              /\ UNCHANGED log
    /\ UNCHANGED <<db_rows, call, scraped_cpus, fn>>

\* lines 215-218: result = self.cursor.fetchone(); if result[0] > 0: continue
Fetchone ==
    /\ main.pc = "fetchone"
    /\ IF AlreadyExists(cursor.pending)
       THEN /\ main' = NextLaptop(main)
            /\ log' = Append(log, "exists")
       ELSE /\ main' = [main EXCEPT !.pc = "insert"]
            /\ UNCHANGED log
    /\ cursor' = [cursor EXCEPT !.has_result = FALSE, !.pending = <<>>]
    /\ UNCHANGED <<db_rows, call, scraped_cpus, fn>>

\* lines 221-234: self.cursor.execute(insert_query, (...)); the row joins the
\* open transaction
InsertRow ==
    /\ main.pc = "insert"
    /\ \E fail \in BOOLEAN :
         IF fail
         THEN OnDbError /\ UNCHANGED db_rows
         ELSE /\ db_rows' = Append(db_rows, Row(scraped_cpus[main.k]))
              /\ main' = [main EXCEPT !.pc = "commit"]
              /\ UNCHANGED log
    /\ UNCHANGED <<cursor, call, scraped_cpus, fn>>

\* lines 235-236: self.conn.commit(); logger.info("Inserted ...").  A commit
\* that fails leaves the transaction open or rolls it back.
Commit ==
    /\ main.pc = "commit"
    /\ \/ /\ cursor' = [cursor EXCEPT !.committed = Len(db_rows)]
          /\ main' = NextLaptop(main)
          /\ log' = Append(log, "inserted")
          /\ UNCHANGED db_rows
       \/ /\ OnDbError
          /\ UNCHANGED <<db_rows, cursor>>
       \/ /\ OnDbError
          /\ db_rows' = SubSeq(db_rows, 1, cursor.committed)
          /\ UNCHANGED cursor
    /\ UNCHANGED <<call, scraped_cpus, fn>>

LaptopNext ==
    \/ InsertCall
    \/ SelectCount
    \/ Fetchone
    \/ InsertRow
    \/ Commit

LaptopSpec == LaptopInit /\ [][LaptopNext]_vars

\* the laptops of the current call that the loop has finished with
Finished ==
    IF main.pc = "returned" THEN Len(scraped_cpus)
    ELSE IF main.pc = "idle" THEN 0
    ELSE main.k - 1

\* C17: the table never holds two rows with the same name; every laptop of
\* the list is dealt with in turn, also after a database error on an earlier
\* one; a laptop goes on to the INSERT only when no row with its name is
\* stored, and once reported inserted its row is in the table, committed.
C17_NoDuplicateNames ==
    /\ DistinctNames(db_rows)
    /\ Len(log) = Finished
    /\ main.pc = "insert" =>
           CountByName(cursor.collation, db_rows, scraped_cpus[main.k].name) = 0
    /\ \A k \in DOMAIN log :
           log[k] = "inserted" =>
               \E i \in 1..cursor.committed : db_rows[i] = Row(scraped_cpus[k])

\* the call has returned; the first laptop met a database error, the second
\* was inserted after it, next to the row the table started with
C17_Witness ==
    /\ main.pc = "returned"
    /\ log = <<"db_error", "inserted">>
    /\ Len(db_rows) = 2
    /\ db_rows[2] = Row(scraped_cpus[2])

(***************************************************************************)
(* IEEE 754 binary64, the float of Python, for values that are not         *)
(* negative.  A natural number of any size is the sequence of its digits   *)
(* to the base 2^15, the lowest first, without leading zeros; a double is  *)
(* m * 2^e with m of at most 53 bits.  Every operation rounds to nearest,  *)
(* ties to even.  Overflow and subnormal numbers are outside the prices    *)
(* modelled.                                                               *)
(***************************************************************************)
MantissaBits == 53

LimbBits == 15

Base == 2^LimbBits

RECURSIVE BNorm(_)
BNorm(a) ==
    IF a # <<>> /\ a[Len(a)] = 0 THEN BNorm(SubSeq(a, 1, Len(a) - 1)) ELSE a

RECURSIVE BOfNat(_)
BOfNat(k) == IF k = 0 THEN <<>> ELSE <<k % Base>> \o BOfNat(k \div Base)

LimbAt(a, i) == IF i <= Len(a) THEN a[i] ELSE 0

RECURSIVE BAddFrom(_, _, _, _)
BAddFrom(a, b, i, carry) ==
    IF i > Len(a) /\ i > Len(b) THEN (IF carry = 1 THEN <<1>> ELSE <<>>)
    ELSE <<(LimbAt(a, i) + LimbAt(b, i) + carry) % Base>>
         \o BAddFrom(a, b, i + 1, (LimbAt(a, i) + LimbAt(b, i) + carry) \div Base)

BAdd(a, b) == BAddFrom(a, b, 1, 0)

\* a - b for a >= b
RECURSIVE BSubFrom(_, _, _, _)
BSubFrom(a, b, i, borrow) ==
    IF i > Len(a) THEN <<>>
    ELSE <<(Base + LimbAt(a, i) - LimbAt(b, i) - borrow) % Base>>
         \o BSubFrom(a, b, i + 1, IF LimbAt(a, i) - LimbAt(b, i) - borrow < 0 THEN 1 ELSE 0)

BSub(a, b) == BNorm(BSubFrom(a, b, 1, 0))

\* a <= b, from the highest digit down
RECURSIVE BLeFrom(_, _, _)
BLeFrom(a, b, i) ==
    IF i = 0 THEN TRUE
    ELSE IF a[i] # b[i] THEN a[i] < b[i]
    ELSE BLeFrom(a, b, i - 1)

BLe(a, b) ==
    IF Len(a) # Len(b) THEN Len(a) < Len(b) ELSE BLeFrom(a, b, Len(a))

\* a * k for k < 2^15
RECURSIVE BTimesFrom(_, _, _, _)
BTimesFrom(a, k, i, carry) ==
    IF i > Len(a) THEN BOfNat(carry)
    ELSE <<(a[i] * k + carry) % Base>> \o BTimesFrom(a, k, i + 1, (a[i] * k + carry) \div Base)

BTimes(a, k) == IF k = 0 THEN <<>> ELSE BTimesFrom(a, k, 1, 0)

\* a * Base
BUp(a) == IF a = <<>> THEN <<>> ELSE <<0>> \o a

RECURSIVE BMul(_, _)
BMul(a, b) ==
    IF b = <<>> THEN <<>>
    ELSE BAdd(BTimes(a, Head(b)), BUp(BMul(a, Tail(b))))

\* a * 2^k
BShl(a, k) ==
    IF a = <<>> THEN <<>>
    ELSE [i \in 1..(k \div LimbBits) |-> 0] \o BTimes(a, 2^(k % LimbBits))

\* the whole part of a / 2^k
BShr(a, k) ==
    BNorm([i \in 1..(Len(a) - k \div LimbBits) |->
              LimbAt(a, i + k \div LimbBits) \div 2^(k % LimbBits)
              + (LimbAt(a, i + k \div LimbBits + 1) % 2^(k % LimbBits))
                * 2^(LimbBits - (k % LimbBits))])

RECURSIVE NatBits(_)
NatBits(k) == IF k = 0 THEN 0 ELSE 1 + NatBits(k \div 2)

\* the number of bits of a
BitLen(a) == IF a = <<>> THEN 0 ELSE LimbBits * (Len(a) - 1) + NatBits(a[Len(a)])

\* bit i of a, the lowest being bit 1
BitAt(a, i) == (LimbAt(a, (i - 1) \div LimbBits + 1) \div 2^((i - 1) % LimbBits)) % 2

\* some bit among the k lowest of a is set
LowBitsSet(a, k) == \E i \in 1..k : BitAt(a, i) = 1

\* long division, one bit of n at a time from the highest: st is the
\* quotient and the remainder so far
DivShifted(d, q, rem) ==
    IF BLe(d, rem) THEN [q |-> BAdd(BAdd(q, q), <<1>>), r |-> BSub(rem, d)]
    ELSE [q |-> BAdd(q, q), r |-> rem]

DivBit(n, d, i, st) ==
    DivShifted(d, st.q, BAdd(BAdd(st.r, st.r), BOfNat(BitAt(n, i))))

\* the bits hi down to lo of n, the upper half before the lower.  The state
\* after the upper half is computed before the lower half starts, which
\* keeps the evaluation shallow.
RECURSIVE DivBits(_, _, _, _, _)
DivLower(n, d, hi, lo, upper) ==
    IF upper.q = upper.q THEN DivBits(n, d, hi, lo, upper) ELSE upper

DivBits(n, d, hi, lo, st) ==
    IF hi < lo THEN st
    ELSE IF hi = lo THEN DivBit(n, d, hi, st)
    ELSE DivLower(n, d, (hi + lo) \div 2, lo,
                  DivBits(n, d, hi, (hi + lo) \div 2 + 1, st))

BDivMod(n, d) == DivBits(n, d, BitLen(n), 1, [q |-> <<>>, r |-> <<>>])

F64Zero == [m |-> <<>>, e |-> 0]

\* the kept bits after rounding up: one more bit means a power of two
Carried(q, e) ==
    IF BitLen(q) > MantissaBits THEN [m |-> BShr(q, 1), e |-> e + 1] ELSE [m |-> q, e |-> e]

\* the kept bits q, the first dropped bit half and whether any lower dropped
\* bit is set: round to nearest, ties to even
Nearest(q, half, sticky, e) ==
    IF half = 1 /\ (sticky \/ BitAt(q, 1) = 1) THEN Carried(BAdd(q, <<1>>), e)
    ELSE [m |-> q, e |-> e]

\* m * 2^e rounded to a double; drop is the number of bits beyond 53
Rounded(m, e, drop) ==
    IF drop <= 0 THEN [m |-> m, e |-> e]
    ELSE Nearest(BShr(m, drop), BitAt(m, drop), LowBitsSet(m, drop - 1), e + drop)

F64Round(m, e) == Rounded(m, e, BitLen(m) - MantissaBits)

\* twice the quotient, plus one when the division left a remainder
WithSticky(qr) ==
    IF qr.r = <<>> THEN BAdd(qr.q, qr.q) ELSE BAdd(BAdd(qr.q, qr.q), <<1>>)

\* the bits by which the numerator is raised for the quotient to have two
\* bits more than a double keeps
Headroom(n, d) ==
    IF MantissaBits + 2 + BitLen(d) - BitLen(n) > 0
    THEN MantissaBits + 2 + BitLen(d) - BitLen(n)
    ELSE 0

QuotientRaised(n, d, e, s) == F64Round(WithSticky(BDivMod(BShl(n, s), d)), e - s - 1)

\* (n / d) * 2^e rounded to a double
F64OfQuotient(n, d, e) ==
    IF n = <<>> THEN F64Zero ELSE QuotientRaised(n, d, e, Headroom(n, d))

F64OfNat(k) == [m |-> BOfNat(k), e |-> 0]

\* the mantissa of a over the lower of the exponents of a and b
Aligned(a, b) == BShl(a.m, IF a.e > b.e THEN a.e - b.e ELSE 0)

LowerExp(a, b) == IF a.e < b.e THEN a.e ELSE b.e

F64Le(a, b) == BLe(Aligned(a, b), Aligned(b, a))

F64Add(a, b) == F64Round(BAdd(Aligned(a, b), Aligned(b, a)), LowerExp(a, b))

\* abs(a - b)
F64AbsDiff(a, b) ==
    IF F64Le(b, a) THEN F64Round(BSub(Aligned(a, b), Aligned(b, a)), LowerExp(a, b))
    ELSE F64Round(BSub(Aligned(b, a), Aligned(a, b)), LowerExp(a, b))

F64Mul(a, b) == F64Round(BMul(a.m, b.m), a.e + b.e)

F64Div(a, b) == F64OfQuotient(a.m, b.m, a.e - b.e)

\* a = b as numbers
F64Eq(a, b) == F64Le(a, b) /\ F64Le(b, a)

RECURSIVE BOfDigits(_, _)
BOfDigits(s, acc) ==
    IF s = <<>> THEN acc
    ELSE BOfDigits(Tail(s), BAdd(BTimes(acc, 10), BOfNat(DigitVal(Head(s)))))

RECURSIVE BPow10(_)
BPow10(k) == IF k = 0 THEN <<1>> ELSE BTimes(BPow10(k - 1), 10)

\* the double nearest to the decimal numeral whole.frac
F64OfDecimal(whole, frac) ==
    F64OfQuotient(BOfDigits(whole \o frac, <<>>), BPow10(Len(frac)), 0)

\* float(s) in binary64: ValueError as for float above
float64(s) ==
    IF Cardinality(Dots(s)) > 1 \/ Len(s) = Cardinality(Dots(s)) THEN Raised
    ELSE IF Dots(s) = {} THEN [raised |-> FALSE, v |-> F64OfDecimal(s, <<>>)]
    ELSE [raised |-> FALSE,
          v |-> F64OfDecimal(SubSeq(s, 1, (CHOOSE i \in Dots(s) : TRUE) - 1),
                             SubSeq(s, (CHOOSE i \in Dots(s) : TRUE) + 1, Len(s)))]

(***************************************************************************)
(* calculate_similarity_score in binary64: the scores as the program       *)
(* computes them, each operation rounded                                   *)
(***************************************************************************)
F64Hundred == F64OfNat(100)

\* the double rapidfuzz returns for a similarity whose exact value is r:
\* 100.0 - 100.0 * dist / lensum, the quotient and the difference rounded
Ratio64(r) ==
    F64AbsDiff(F64Hundred,
               F64OfQuotient(BOfNat(RSub(Int2Rat(100), r).n),
                             BOfNat(RSub(Int2Rat(100), r).d), 0))

\* sum(match_scores): from the left, starting at 0
RECURSIVE Sum64(_, _)
Sum64(xs, acc) ==
    IF xs = <<>> THEN acc ELSE Sum64(Tail(xs), F64Add(acc, Ratio64(Head(xs))))

\* line 224
Average64(match_scores) ==
    IF match_scores # <<>>
    THEN F64Div(Sum64(match_scores, F64Zero), F64OfNat(Len(match_scores)))
    ELSE F64Zero

calculate_spec_similarity64(scraped_specs, db_specs) ==
    IF scraped_specs = <<>> \/ db_specs = <<>> THEN F64Zero
    ELSE Average64(MatchScores(scraped_specs, db_specs, <<>>))

\* line 241: abs(scraped_price - db_price) / (db_price or 1) * 100
PriceDifferencePercentage64(scraped_price, db_price) ==
    F64Mul(F64Div(F64AbsDiff(scraped_price, db_price),
                  IF db_price.m = <<>> THEN F64OfNat(1) ELSE db_price),
           F64Hundred)

\* line 242: max(0, 100 - price_diff_percentage)
Floored64(price_diff_percentage) ==
    IF F64Le(price_diff_percentage, F64Hundred)
    THEN F64AbsDiff(F64Hundred, price_diff_percentage)
    ELSE F64Zero

\* lines 239-245 once both float() calls are made
PriceOfFloats64(scraped, db) ==
    IF scraped.raised \/ db.raised THEN F64Zero
    ELSE Floored64(PriceDifferencePercentage64(scraped.v, db.v))

calculate_price_similarity64(scraped_price, db_price) ==
    PriceOfFloats64(float64(SubNonNumeric(Str(scraped_price))),
                    float64(SubNonNumeric(Str(db_price))))

\* the literals 0.5, 0.3 and 0.2 of lines 275-277
NameWeight64 == F64OfDecimal(<<"0">>, <<"5">>)

SpecWeight64 == F64OfDecimal(<<"0">>, <<"3">>)

PriceWeight64 == F64OfDecimal(<<"0">>, <<"2">>)

\* lines 274-278 with the spec and price weights exchanged
TotalScore64_Exchanged(name_similarity, spec_similarity, price_similarity) ==
    F64Add(F64Add(F64Mul(name_similarity, NameWeight64),
                  F64Mul(spec_similarity, PriceWeight64)),
           F64Mul(price_similarity, SpecWeight64))

\* lines 274-278
TotalScore64(name_similarity, spec_similarity, price_similarity) ==
    F64Add(F64Add(F64Mul(name_similarity, NameWeight64),
                  F64Mul(spec_similarity, SpecWeight64)),
           F64Mul(price_similarity, PriceWeight64))

Locals64(name_similarity, spec_similarity, price_similarity) ==
    [raised |-> FALSE,
     name_similarity |-> name_similarity,
     spec_similarity |-> spec_similarity,
     price_similarity |-> price_similarity,
     total_score |-> TotalScore64(name_similarity, spec_similarity, price_similarity)]

ScoreDecoded64(scraped_product, db_product, db_specs) ==
    IF db_specs.raised THEN Raised
    ELSE Locals64(Ratio64(token_set_ratio(normalize_text(scraped_product.name),
                                          normalize_text(db_product.name))),
                  calculate_spec_similarity64(scraped_product.specs, db_specs.v),
                  calculate_price_similarity64(scraped_product.price, db_product.price))

calculate_similarity_score64(scraped_product, db_product) ==
    ScoreDecoded64(scraped_product, db_product, DecodeSpecs(db_product.specs))

\* line 302: if similarity_score >= similarity_threshold
Accepts64(similarity_score, similarity_threshold) ==
    F64Le(similarity_threshold, similarity_score)

(***************************************************************************)
(* Score64Spec: one call of calculate_similarity_score on a scraped        *)
(* product and a catalog record, in binary64                               *)
(***************************************************************************)
Names64 == {<<"R","y","z","e","n"," ","9">>, <<"A","M","D"," ","R","y","z","e","n"," ","9">>}

Prices64 ==
    {<<"1">>, <<"1",".","0","0","0","0","0","0","0","0","0","0","0","0","0","0","0","2">>,
     <<"$","1","0",".","0","0">>, <<"1","0">>, <<"0">>, <<"N","/","A">>}

Scraped64 == [name : Names64, price : Prices64, specs : {<<>>, Cores12}]

Entries64 == [name : Names64, price : Prices64, specs : {None, json_dumps(Cores12)}]

Score64Init ==
    /\ db_rows = <<>>
    /\ cursor = ClosedCursor
    /\ call = NoCall
    /\ scraped_cpus = <<>>
    /\ main = IdleMain
    /\ log = <<>>
    /\ \E scraped_product \in Scraped64, db_product \in Entries64 :
         fn = [op |-> "calculate_similarity_score",
               args |-> <<scraped_product, db_product>>,
               done |-> FALSE, result |-> Raised]

Score64 ==
    /\ fn.op = "calculate_similarity_score"
    /\ ~fn.done
    /\ fn' = [fn EXCEPT !.done = TRUE,
                        !.result = calculate_similarity_score64(fn.args[1], fn.args[2])]
    /\ UNCHANGED <<db_rows, cursor, call, scraped_cpus, main, log>>

Score64Spec == Score64Init /\ [][Score64]_vars

\* the pair was scored, and the scraped attribute map is empty or the
\* catalog record has no specs
ScoredWithoutSpecs ==
    /\ fn.op = "calculate_similarity_score"
    /\ fn.done
    /\ ~fn.result.raised
    /\ (fn.args[1].specs = <<>> \/ fn.args[2].specs = None)

\* the pair passes line 302 at the default threshold
AcceptedAtDefault == Accepts64(fn.result.total_score, F64OfNat(DefaultThreshold))

NearHundred == F64AbsDiff(F64Hundred, [m |-> <<3>>, e |-> 0 - 46])

====
